---- MODULE Spec2Model ----
(***************************************************************************)
(* Model of the UDS read-by-identifier engine (extended addressing) in its *)
(* two implementations, UdsTablePage._uds_read_by_identifier (bmw.py) and  *)
(* uds_read_by_id (bmw_gui/trigger_finder.py), and of the                  *)
(* TriggerFinderRunner thread control (start / stop / is_running) and its  *)
(* worker loop, of send_sequence in its two implementations, and of the    *)
(* Trigger Finder's detectors with the LED decoder of the table page, of   *)
(* the byte-field helpers normalize_hex_byte and tokens_from_boxes, and of *)
(* the engine loop of the Trigger Finder with its ring buffer and its hit  *)
(* counters.                                                               *)
(*                                                                         *)
(* Byte sequences are TLA+ sequences; At(s, i) and Slice(s, a, b) keep the *)
(* zero-based indices of the Python source.  Time is abstracted: a wait    *)
(* whose deadline can pass is an action that may fire at any point of the  *)
(* wait.  The engine loop alone keeps a clock, in units of 10 ms.          *)
(***************************************************************************)
EXTENDS Integers, Sequences, FiniteSets, TLC

VARIABLES
    impl,       \* "bmw": bmw.py engine, "tf": trigger_finder.py engine
    env,        \* "mixed": any frame of the universe, "burst": a responder that keeps sending
    prof,       \* profile name
    did,        \* data identifier of the exchange
    pc,         \* "idle", "wait_first", "wait_cf", "done"
    payload,    \* the engine's payload list
    outcome,    \* "none", "Payload" (returned) or the error raised
    log,        \* history: every frame sent and received, in order
    waitEnd,    \* history: "none", "first" or "cf": the wait whose deadline passed
    thread,     \* TriggerFinderRunner._thread: 0 (None) or a worker id
    stopEvent,  \* TriggerFinderRunner._stop_event
    wpc,        \* worker id -> position of its _run
    uipc,       \* position of the caller inside start(): "idle", "clear" or "spawn"
    startLog,   \* history: what the last start() call saw and did
    target,     \* TriggerFinderRunner.target_name
    last_state, \* worker id -> last_state of its _run
    trace,      \* history: worker id -> what its _run did, first occurrences in order
    iter,       \* history: the last completed loop iteration
    simpl,      \* "bmw": send_sequence of bmw.py, "gui": of bmw_gui/sequences.py
    seq,        \* the list of (id, data) entries send_sequence was called with
    spos,       \* position of the call: "idle", "send", "drain", "sleep", "exit",
                \* "returned" (to the caller), "reported" (by the caller)
    sidx,       \* number of entries the for loop has completed
    nrx,        \* frames received in the response window in progress
    serror,     \* "none" or the step that raised: "open", "send", "recv"
    sresult,    \* "none", "True", "False" or "raised"
    slog,       \* history: what the call did to the bus and the screen, in order
    callerOk,   \* the caller's ok variable: "none", TRUE or FALSE
    det,        \* name of the detector object under observation
    dcfg,       \* CanBit: can_id, byte, mask, value of the constructor
    dprev,      \* AHLMove / LWRMove: self.prev in tenths, NoValue for None
    dlast,      \* CanBit: self._last
    ecu,        \* the payload the lamp module answers a read of the detector's DID with
    dhist,      \* history since reset(): one entry per read_state call
    dres,       \* history: what the last read_state call did
    hval,       \* the text normalize_hex_byte is called with, one character per entry
    hres,       \* what that call did: kind "none", "token", "wildcard" or "ValueError"
    boxes,      \* the texts of the byte fields tokens_from_boxes is called with
    bres,       \* what that call did: kind "none", "ok" or "ValueError"
    lpayload,   \* the payload _decode_led is called with
    lres,       \* what that call returned: kind "none" or "ok", percent, current
    now,        \* time.monotonic(), in units of 10 ms
    ring,       \* _run: the ring buffer, entries [ts, id, data]
    id_hits,    \* _run: id_hits, arbitration id -> count
    bit_hits,   \* _run: bit_hits, <<id, byte, bit>> -> count
    elast,      \* _run: last_state
    taken,      \* history: the frames the detector's own reads received
    evt         \* history: iterations made (k), events analysed (n), the last one's time and ids

udsVars == <<impl, env, prof, did, pc, payload, outcome, log, waitEnd>>
runVars == <<thread, stopEvent, wpc, uipc, startLog, target, last_state, trace, iter>>
seqVars == <<simpl, seq, spos, sidx, nrx, serror, sresult, slog, callerOk>>
vars == <<impl, env, prof, did, pc, payload, outcome, log, waitEnd,
          thread, stopEvent, wpc, uipc, startLog, target, last_state, trace, iter,
          simpl, seq, spos, sidx, nrx, serror, sresult, slog, callerOk,
          det, dcfg, dprev, dlast, ecu, dhist, dres,
          hval, hres, boxes, bres,
          lpayload, lres, now, ring, id_hits, bit_hits, elast, taken, evt>>
ledVars == <<lpayload, lres>>
engVars == <<now, ring, id_hits, bit_hits, elast, taken, evt>>
detVars == <<det, dcfg, dprev, dlast, ecu, dhist, dres>>
hexVars == <<hval, hres, boxes, bres>>

\* what the actions of one component leave alone
notUds == <<runVars, seqVars, detVars, hexVars, ledVars, engVars>>
notRun == <<udsVars, seqVars, detVars, hexVars, ledVars, engVars>>
notSeq == <<udsVars, runVars, detVars, hexVars, ledVars, engVars>>
notDet == <<udsVars, runVars, seqVars, hexVars, ledVars, engVars>>
notHex == <<udsVars, runVars, seqVars, detVars, ledVars, engVars>>
notLed == <<udsVars, runVars, seqVars, detVars, hexVars, engVars>>

(***************************************************************************)
(* Bounds of the model.                                                    *)
(***************************************************************************)
MaxSkip == 1
MaxCf == 2
MaxBurst == 24
MaxWorkers == 2

(***************************************************************************)
(* Python list helpers.                                                    *)
(***************************************************************************)
Min(a, b) == IF a <= b THEN a ELSE b

At(s, i) == s[i + 1]

\* s[a:b]
Slice(s, a, b) == SubSeq(s, a + 1, Min(b, Len(s)))

\* s[a:]
From(s, a) == SubSeq(s, a + 1, Len(s))

Zeros(n) == [i \in 1..n |-> 0]

\* b & 0xF0 and b & 0x0F
HighNibble(b) == (b \div 16) * 16

LowNibble(b) == b % 16

(***************************************************************************)
(* Configuration data.                                                     *)
(***************************************************************************)
PROFILES ==
    [links  |-> [TX_ID |-> \h6F1, RX_ID |-> \h643, EA_REQ |-> \h43, EA_RSP |-> \hF1],
     rechts |-> [TX_ID |-> \h6F2, RX_ID |-> \h644, EA_REQ |-> \h44, EA_RSP |-> \hF1]]

ProfileNames == {"links", "rechts"}

UDS_EA_RSP == \hF1

DID_LED == \hD631

DID_AHL == \hD663

PAYLOAD_CEILING == 128

DidHigh(d) == (d \div 256) % 256

DidLow(d) == d % 256

Cfg == PROFILES[prof]

(***************************************************************************)
(* Frames built by the engine.                                             *)
(***************************************************************************)
Request(ea_req, d) == <<ea_req, \h03, \h22, DidHigh(d), DidLow(d), 0, 0, 0>>

FlowControlWrongBlock(ea_req) == <<ea_req, \h30, \h01, \h00, 0, 0, 0, 0>>

FlowControl(ea_req) == <<ea_req, \h30, \h00, \h00, 0, 0, 0, 0>>

(***************************************************************************)
(* The frame as the engine sees it.  bmw.py's _recv_until pads the data to *)
(* 8 bytes with zeros; trigger_finder.py's _pcan_read_once hands over the  *)
(* DLC bytes as they are.                                                  *)
(***************************************************************************)
Pad8(data) == IF Len(data) < 8 THEN data \o Zeros(8 - Len(data)) ELSE data

View(i, data) == IF i = "bmw" THEN Pad8(data) ELSE data

(***************************************************************************)
(* Payload arithmetic of both engines.                                     *)
(***************************************************************************)
SfPayloadShifted(f) == Slice(f, 4, 4 + LowNibble(At(f, 1)))

\* first[5 : 5 + length] / data[5 : 5 + L]
SfPayload(f) == Slice(f, 5, 5 + LowNibble(At(f, 1)))

\* first[6:] / data[6:]
FfPayload(f) == From(f, 6)

AppendCfSwapped(p, f) == From(f, 2) \o p

AppendCfWide(p, f) == p \o From(f, 1)

\* payload += cf[2:] / payload += list(data2[2:])
AppendCf(p, f) == p \o From(f, 2)

Positive(f, at, d) ==
    /\ At(f, at) = \h62
    /\ At(f, at + 1) = DidHigh(d)
    /\ At(f, at + 2) = DidLow(d)

(***************************************************************************)
(* How each engine treats a frame received during the initial wait:        *)
(*   "skip"    keep waiting                                                *)
(*   "bad_ea"  raise 'Keine gueltige UDS Antwort.'                         *)
(*   "sf"      return the single-frame payload                             *)
(*   "sf_neg"  raise 'Negative Antwort (SF).'                              *)
(*   "ff"      send flow control, start collecting                         *)
(*   "ff_neg"  send flow control, raise 'Negative Antwort (FF).'           *)
(*   "bad_pci" raise 'Unerwartete PCI Art.'                                *)
(***************************************************************************)
BmwInitial(arbid, data, rx_id, d) ==
    LET first == Pad8(data) IN
    IF arbid # rx_id THEN "skip"
    ELSE IF At(first, 0) # UDS_EA_RSP THEN "bad_ea"
    ELSE IF HighNibble(At(first, 1)) = \h00
         THEN IF Positive(first, 2, d) THEN "sf" ELSE "sf_neg"
    ELSE IF HighNibble(At(first, 1)) = \h10
         THEN IF Positive(first, 3, d) THEN "ff" ELSE "ff_neg"
    ELSE "bad_pci"

TfInitial(arbid, data, rx_id, ea_rsp, d) ==
    IF arbid # rx_id \/ Len(data) < 2 THEN "skip"
    ELSE IF At(data, 0) # ea_rsp THEN "skip"
    ELSE IF HighNibble(At(data, 1)) = \h00 /\ Len(data) >= 5 /\ Positive(data, 2, d)
         THEN "sf"
    ELSE IF HighNibble(At(data, 1)) = \h10 /\ Len(data) >= 6 /\ Positive(data, 3, d)
         THEN "ff"
    ELSE "skip"

(***************************************************************************)
(* How each engine treats a frame received while collecting consecutive    *)
(* frames: "skip" keep waiting, "cf" append, "stop" leave the loop.        *)
(***************************************************************************)
BmwCollect(arbid, data, rx_id) ==
    LET cf == Pad8(data) IN
    IF arbid # rx_id THEN "skip"
    ELSE IF At(cf, 0) # UDS_EA_RSP \/ HighNibble(At(cf, 1)) # \h20 THEN "stop"
    ELSE "cf"

TfCollect(arbid, data, rx_id, ea_rsp) ==
    IF arbid # rx_id \/ Len(data) < 2 \/ At(data, 0) # ea_rsp THEN "skip"
    ELSE IF HighNibble(At(data, 1)) = \h20 THEN "cf"
    ELSE "stop"

\* bmw.py: if len(payload) > 128: break.  trigger_finder.py has no such test.
BmwCeilingHit(p) == Len(p) > PAYLOAD_CEILING

(***************************************************************************)
(* What ends each wait when its deadline passes.                           *)
(***************************************************************************)
CfDeadlineRaises(i) == "TimeoutError"

\* bmw.py 1248-1250: _recv_until returns None, 'Keine gueltige UDS Antwort.'
\* trigger_finder.py 137: raise TimeoutError
FirstDeadline(i) == IF i = "bmw" THEN "NoValidResponse" ELSE "TimeoutError"

\* bmw.py 1266-1271: not cf -> break, return payload
\* trigger_finder.py 127/136: the inner while ends, return tuple(payload)
CfDeadline(i) == "Payload"

(***************************************************************************)
(* The bus: the frames a responder (or another node) may put on the bus.   *)
(***************************************************************************)
OTHER_ID == \h123

Fr(id, data) == [id |-> id, data |-> data]

SfFrames(rx, d) ==
    { Fr(rx, <<\hF1, L, \h62, DidHigh(d), DidLow(d), \hAA, \hBB, \hCC>>) : L \in {0, 3, 5} }
    \cup { Fr(rx, <<\hF1, \h03, \h62, DidHigh(d), DidLow(d), \hAA>>),
           Fr(rx, <<\hF1, \h03, \h7F, \h22, \h31, 0, 0, 0>>) }

FfFrames(rx, d) ==
    { Fr(rx, <<\hF1, \h10, \h05, \h62, DidHigh(d), DidLow(d), \h11, \h12>>),
      Fr(rx, <<\hF1, \h10, \h05, \h7F, \h22, \h31, 0, 0>>) }

CfFrames(rx) ==
    { Fr(rx, <<\hF1, \h21, \h21, \h22, \h23, \h24, \h25, \h26>>),
      Fr(rx, <<\hF1, \h22, \h31, \h32, \h33, \h34, \h35, \h36>>),
      Fr(rx, <<\hF1, \h23, \h41, \h42, \h43>>) }

StrayFrames(rx, d) ==
    { Fr(OTHER_ID, <<\hF1, \h03, \h62, DidHigh(d), DidLow(d), \hAA, \hBB, \hCC>>),
      Fr(rx, <<\hF2, \h03, \h62, DidHigh(d), DidLow(d), \hAA, \hBB, \hCC>>),
      Fr(rx, <<\hF1, \h30, 0, 0, 0, 0, 0, 0>>),
      Fr(rx, <<\hF1>>) }

BusFrames(e, rx, d) ==
    IF e = "burst"
    THEN { Fr(rx, <<\hF1, \h10, \h05, \h62, DidHigh(d), DidLow(d), \h11, \h12>>),
           Fr(rx, <<\hF1, \h21, \h21, \h22, \h23, \h24, \h25, \h26>>),
           Fr(rx, <<\hF1, \h03, \h62, DidHigh(d), DidLow(d), \hAA, \hBB, \hCC>>),
           Fr(OTHER_ID, <<\hF1, \h21, \h21, \h22, \h23, \h24, \h25, \h26>>) }
    ELSE SfFrames(rx, d) \cup FfFrames(rx, d) \cup CfFrames(rx) \cup StrayFrames(rx, d)

(***************************************************************************)
(* History helpers.                                                        *)
(***************************************************************************)
Tx(id, data) == [t |-> "tx", id |-> id, data |-> data, as |-> "tx", ph |-> "-"]

Rx(f, as, ph) == [t |-> "rx", id |-> f.id, data |-> f.data, as |-> as, ph |-> ph]

Count(as) == Cardinality({i \in 1..Len(log) : log[i].as = as})

\* The bound on received frames: skipped ones, and accepted consecutive ones.
MaySkip == Count("skip") < MaxSkip

MayCollect == Count("cf") < (IF env = "burst" THEN MaxBurst ELSE MaxCf)

(***************************************************************************)
(* The exchange.                                                           *)
(***************************************************************************)
\* bmw.py 1243-1246 / trigger_finder.py 107-110: the request is sent once.
SendRequest ==
    /\ pc = "idle"
    /\ log' = Append(log, Tx(Cfg.TX_ID, Request(Cfg.EA_REQ, did)))
    /\ pc' = "wait_first"
    /\ UNCHANGED <<impl, env, prof, did, payload, outcome, waitEnd>>
    /\ UNCHANGED notUds

\* bmw.py 1224-1262: one frame handed to the engine during the initial wait.
BmwRecvFirst ==
    /\ impl = "bmw" /\ pc = "wait_first"
    /\ \E f \in BusFrames(env, Cfg.RX_ID, did) :
         LET as == BmwInitial(f.id, f.data, Cfg.RX_ID, did)
             first == Pad8(f.data)
             fc == Tx(Cfg.TX_ID, FlowControl(Cfg.EA_REQ))
         IN  /\ as = "skip" => MaySkip
             /\ log' = IF as \in {"ff", "ff_neg"}
                       THEN log \o <<Rx(f, as, "first"), fc>>
                       ELSE Append(log, Rx(f, as, "first"))
             /\ pc' = CASE as = "skip" -> "wait_first"
                        [] as = "ff" -> "wait_cf"
                        [] OTHER -> "done"
             /\ payload' = CASE as = "sf" -> SfPayload(first)
                             [] as = "ff" -> FfPayload(first)
                             [] OTHER -> payload
             /\ outcome' = CASE as = "sf" -> "Payload"
                             [] as = "sf_neg" -> "NegativeSF"
                             [] as = "ff_neg" -> "NegativeFF"
                             [] as = "bad_ea" -> "NoValidResponse"
                             [] as = "bad_pci" -> "UnexpectedPCI"
                             [] OTHER -> outcome
    /\ UNCHANGED <<impl, env, prof, did, waitEnd>>
    /\ UNCHANGED notUds

\* trigger_finder.py 111-126: one frame read during the initial wait.
TfRecvFirst ==
    /\ impl = "tf" /\ pc = "wait_first"
    /\ \E f \in BusFrames(env, Cfg.RX_ID, did) :
         LET as == TfInitial(f.id, f.data, Cfg.RX_ID, Cfg.EA_RSP, did)
             fc == Tx(Cfg.TX_ID, FlowControl(Cfg.EA_REQ))
         IN  /\ as = "skip" => MaySkip
             /\ log' = IF as = "ff"
                       THEN log \o <<Rx(f, as, "first"), fc>>
                       ELSE Append(log, Rx(f, as, "first"))
             /\ pc' = CASE as = "skip" -> "wait_first"
                        [] as = "ff" -> "wait_cf"
                        [] OTHER -> "done"
             /\ payload' = CASE as = "sf" -> SfPayload(f.data)
                             [] as = "ff" -> FfPayload(f.data)
                             [] OTHER -> payload
             /\ outcome' = IF as = "sf" THEN "Payload" ELSE outcome
    /\ UNCHANGED <<impl, env, prof, did, waitEnd>>
    /\ UNCHANGED notUds

\* The deadline of the initial wait passes.
TimeoutFirst ==
    /\ pc = "wait_first"
    /\ pc' = "done"
    /\ outcome' = FirstDeadline(impl)
    /\ waitEnd' = "first"
    /\ UNCHANGED <<impl, env, prof, did, payload, log>>
    /\ UNCHANGED notUds

\* bmw.py 1264-1271: one frame handed to the collecting loop.
BmwRecvCf ==
    /\ impl = "bmw" /\ pc = "wait_cf"
    /\ \E f \in BusFrames(env, Cfg.RX_ID, did) :
         LET as == BmwCollect(f.id, f.data, Cfg.RX_ID)
             grown == AppendCf(payload, Pad8(f.data))
         IN  /\ as = "skip" => MaySkip
             /\ as = "cf" => MayCollect
             /\ log' = Append(log, Rx(f, as, "cf"))
             /\ payload' = IF as = "cf" THEN grown ELSE payload
             /\ pc' = IF as = "stop" \/ (as = "cf" /\ BmwCeilingHit(grown))
                      THEN "done" ELSE "wait_cf"
             /\ outcome' = IF as = "stop" \/ (as = "cf" /\ BmwCeilingHit(grown))
                           THEN "Payload" ELSE outcome
    /\ UNCHANGED <<impl, env, prof, did, waitEnd>>
    /\ UNCHANGED notUds

\* trigger_finder.py 127-136: one frame read by the collecting loop.
TfRecvCf ==
    /\ impl = "tf" /\ pc = "wait_cf"
    /\ \E f \in BusFrames(env, Cfg.RX_ID, did) :
         LET as == TfCollect(f.id, f.data, Cfg.RX_ID, Cfg.EA_RSP)
         IN  /\ as = "skip" => MaySkip
             /\ as = "cf" => MayCollect
             /\ log' = Append(log, Rx(f, as, "cf"))
             /\ payload' = IF as = "cf" THEN AppendCf(payload, f.data) ELSE payload
             /\ pc' = IF as = "stop" THEN "done" ELSE "wait_cf"
             /\ outcome' = IF as = "stop" THEN "Payload" ELSE outcome
    /\ UNCHANGED <<impl, env, prof, did, waitEnd>>
    /\ UNCHANGED notUds

\* The deadline of the collecting wait passes.
TimeoutCf ==
    /\ pc = "wait_cf"
    /\ pc' = "done"
    /\ outcome' = CfDeadline(impl)
    /\ waitEnd' = "cf"
    /\ UNCHANGED <<impl, env, prof, did, payload, log>>
    /\ UNCHANGED notUds

UdsNext ==
    \/ SendRequest
    \/ BmwRecvFirst
    \/ TfRecvFirst
    \/ TimeoutFirst
    \/ BmwRecvCf
    \/ TfRecvCf
    \/ TimeoutCf

\* the detector names the model starts a runner with: one UDS detector and
\* the passive one
RunnerTargets == {"LED_ANY_ON", "CAN_BIT"}

RunnerIdle ==
    /\ thread = 0
    /\ stopEvent = FALSE
    /\ wpc = [w \in 1..MaxWorkers |-> "unborn"]
    /\ uipc = "idle"
    /\ startLog = [tick |-> 0, result |-> "none"]
    /\ last_state = [w \in 1..MaxWorkers |-> FALSE]
    /\ trace = [w \in 1..MaxWorkers |-> <<>>]
    /\ iter = [tick |-> 0, w |-> 0, read |-> "none", state |-> FALSE, fired |-> FALSE]

\* no send_sequence call in progress
SeqIdle ==
    /\ simpl = "gui"
    /\ seq = <<>>
    /\ spos = "idle"
    /\ sidx = 0
    /\ nrx = 0
    /\ serror = "none"
    /\ sresult = "none"
    /\ slog = <<>>
    /\ callerOk = "none"

\* the arbitration ids of the model's bus: the one CanBit watches and another
BusIds == {\h123, \h456}

\* the keys of bit_hits: (id, byte index, bit)
BitKeys == BusIds \X {0} \X (0..7)

\* _decode_led not called
LedIdle ==
    /\ lpayload = <<>>
    /\ lres = [kind |-> "none", percent |-> <<>>, current |-> <<>>]

\* _run, lines 389-398: the loop not entered yet
EngIdle ==
    /\ now = 0
    /\ ring = <<>>
    /\ id_hits = [i \in BusIds |-> 0]
    /\ bit_hits = [k \in BitKeys |-> 0]
    /\ elast = FALSE
    /\ taken = <<>>
    /\ evt = [k |-> 0, n |-> 0, t |-> 0, seen |-> {}]

RestIdle == LedIdle /\ EngIdle

\* no call of the byte-field helpers made
HexIdle ==
    /\ hval = <<>>
    /\ hres = [kind |-> "none", s |-> <<>>]
    /\ boxes = <<>>
    /\ bres = [kind |-> "none", tokens |-> <<>>, total |-> <<>>]

\* Python's None where a number is expected
NoValue == -1

\* a detector as constructed, never read
DetIdle ==
    /\ det = "CAN_BIT"
    /\ dcfg = [cid |-> \h123, byte |-> 0, mask |-> 1, value |-> 1]
    /\ dprev = NoValue
    /\ dlast = 0
    /\ ecu = <<>>
    /\ dhist = <<>>
    /\ dres = [tick |-> 0, result |-> "none"]

UdsInit(e) ==
    /\ impl \in {"bmw", "tf"}
    /\ env = e
    /\ prof \in ProfileNames
    /\ did \in {DID_LED, DID_AHL}
    /\ pc = "idle"
    /\ payload = <<>>
    /\ outcome = "none"
    /\ log = <<>>
    /\ waitEnd = "none"
    /\ RunnerIdle
    /\ target = "LED_ANY_ON"
    /\ SeqIdle
    /\ DetIdle
    /\ HexIdle
    /\ RestIdle

InitUds == UdsInit("mixed")

InitBurst == UdsInit("burst")

SpecUds == InitUds /\ [][UdsNext]_vars

SpecBurst == InitBurst /\ [][UdsNext]_vars

(***************************************************************************)
(* TriggerFinderRunner: the caller's thread (the Tk main loop) calls       *)
(* start() and stop(); each started worker thread runs _run.  A worker is  *)
(*   "unborn"   not created yet                                            *)
(*   "entry"    started, before PCANBasic.Initialize                       *)
(*   "loop"     transport open, at the while test of the stop event        *)
(*   "body"     transport open, inside a loop iteration                    *)
(*   "released" after the finally block, before the final report          *)
(*   "dead"     _run has returned or raised                                *)
(***************************************************************************)
Workers == 1..MaxWorkers

\* threading.Thread.is_alive()
IsAlive(w) == wpc[w] \notin {"unborn", "dead"}

\* between api.Initialize (385) and api.Uninitialize (456)
HoldsTransport(w) == wpc[w] \in {"loop", "body"}

\* is_running(): self._thread is not None and self._thread.is_alive()
IsRunning == thread # 0 /\ IsAlive(thread)

StartRejectsNever(t) == FALSE

\* start(): if self._thread and self._thread.is_alive(): return False
StartRejects(t) == t # 0 /\ IsAlive(t)

Unborn == {w \in Workers : wpc[w] = "unborn"}

Range(s) == {s[i] : i \in 1..Len(s)}

\* a history keeps the first occurrence of each entry
Note(tr, tag) == IF tag = "none" \/ tag \in Range(tr) THEN tr ELSE Append(tr, tag)

\* the detectors that read through uds_read_by_id
UdsTargets == {"LED_ANY_ON", "AHL_MOVE", "LWR_MOVE", "UDS_CUSTOM"}

\* the keyword-only parameters of uds_read_by_id
UdsReadParams == {"tx_id", "rx_id", "ea_req", "ea_rsp", "timeout"}

\* uds_read_by_id(api, did, **profile): Python binds the dictionary's keys to
\* the keyword parameters and raises TypeError for a key that names none.
KeywordCall(profile) ==
    IF DOMAIN profile \subseteq UdsReadParams THEN "called" ELSE "TypeError"

\* What detector.read_state(api, profile) can do in one iteration: a UDS
\* detector begins with the keyword call; CanBit polls the transport, whose
\* Read may raise.
DetectorOutcomes(t, profile) ==
    IF t \in UdsTargets
    THEN IF KeywordCall(profile) = "TypeError"
         THEN {"TypeError"}
         ELSE {"true", "false", "TimeoutError"}
    ELSE {"true", "false", "Exception"}

ReadStateErrorSetsState(out) ==
    IF out \in {"true", "false"}
    THEN [state |-> out = "true", logged |-> "none"]
    ELSE [state |-> TRUE, logged |-> "error_log"]

\* _run, lines 408-415: the state of the iteration and the line logged.
ReadState(out) ==
    IF out \in {"true", "false"}
    THEN [state |-> out = "true", logged |-> "none"]
    ELSE IF out = "TimeoutError"
         THEN [state |-> FALSE, logged |-> "uds_timeout_log"]
         ELSE [state |-> FALSE, logged |-> "error_log"]

LoopContinuesAlways(stop) == TRUE

\* _run, line 400: while not self._stop_event.is_set()
LoopContinues(stop) == ~stop

\* start(), lines 321-322: the test of the running worker.
StartCheck ==
    /\ uipc = "idle"
    /\ Unborn # {} \/ StartRejects(thread)
    /\ IF StartRejects(thread)
       THEN /\ startLog' = [tick |-> 1 - startLog.tick, result |-> "rejected"]
            /\ UNCHANGED <<thread, stopEvent, wpc, uipc>>
       ELSE /\ uipc' = "clear"
            /\ UNCHANGED <<thread, stopEvent, wpc, startLog>>
    /\ UNCHANGED <<target, last_state, trace, iter>>
    /\ UNCHANGED notRun

\* start(), line 324: self._stop_event.clear()
StartClear ==
    /\ uipc = "clear"
    /\ stopEvent' = FALSE
    /\ uipc' = "spawn"
    /\ UNCHANGED <<thread, wpc, startLog, target, last_state, trace, iter>>
    /\ UNCHANGED notRun

\* start(), lines 325-327: create and start the thread, return True.
StartSpawn ==
    /\ uipc = "spawn"
    /\ LET w == CHOOSE x \in Unborn : \A y \in Unborn : x <= y
       IN  /\ thread' = w
           /\ wpc' = [wpc EXCEPT ![w] = "entry"]
    /\ uipc' = "idle"
    /\ startLog' = [tick |-> 1 - startLog.tick, result |-> "started"]
    /\ UNCHANGED <<stopEvent, target, last_state, trace, iter>>
    /\ UNCHANGED notRun

\* stop(): self._stop_event.set()
Stop ==
    /\ uipc = "idle"
    /\ stopEvent' = TRUE
    /\ UNCHANGED <<thread, wpc, uipc, startLog, target, last_state, trace, iter>>
    /\ UNCHANGED notRun

\* _run, lines 369-387: a missing driver, an unknown profile, a detector that
\* cannot be built or a failing Initialize: a log line and return.
WorkerOpenFails(w) ==
    /\ wpc[w] = "entry"
    /\ wpc' = [wpc EXCEPT ![w] = "dead"]
    /\ trace' = [trace EXCEPT ![w] = Note(@, "init_error_log")]
    /\ UNCHANGED <<thread, stopEvent, uipc, startLog, target, last_state, iter>>
    /\ UNCHANGED notRun

\* _run, lines 384-398: the transport is open, the detector is reset, the
\* start is logged and the loop is entered with last_state = False.
WorkerOpens(w) ==
    /\ wpc[w] = "entry"
    /\ wpc' = [wpc EXCEPT ![w] = "loop"]
    /\ trace' = [trace EXCEPT ![w] = Note(Note(@, "Initialize"), "start_log")]
    /\ last_state' = [last_state EXCEPT ![w] = FALSE]
    /\ UNCHANGED <<thread, stopEvent, uipc, startLog, target, iter>>
    /\ UNCHANGED notRun

\* _run, line 400: the while test; when the event is set, the finally block
\* (lines 454-459) releases the transport.
WorkerTestsStop(w) ==
    /\ wpc[w] = "loop"
    /\ IF LoopContinues(stopEvent)
       THEN /\ wpc' = [wpc EXCEPT ![w] = "body"]
            /\ UNCHANGED trace
       ELSE /\ wpc' = [wpc EXCEPT ![w] = "released"]
            /\ trace' = [trace EXCEPT ![w] = Note(@, "Uninitialize")]
    /\ UNCHANGED <<thread, stopEvent, uipc, startLog, target, last_state, iter>>
    /\ UNCHANGED notRun

\* an engine that analyses an event whenever the state is true
RisingIsLevel(state, last) == state

\* _run, line 417: if state and not last_state
Rising(state, last) == state /\ ~last

\* _run, lines 401-453: one iteration runs to its end: the poll returns, the
\* detector is read, an event is analysed on a rising state, last_state is
\* updated.
WorkerIterates(w) ==
    /\ wpc[w] = "body"
    /\ \E out \in DetectorOutcomes(target, PROFILES[prof]) :
         LET r     == ReadState(out)
             fired == Rising(r.state, last_state[w])
         IN  /\ trace' = [trace EXCEPT ![w] =
                            Note(Note(@, r.logged), IF fired THEN "event_log" ELSE "none")]
             /\ last_state' = [last_state EXCEPT ![w] = r.state]
             /\ iter' = [tick |-> 1 - iter.tick, w |-> w, read |-> out,
                         state |-> r.state, fired |-> fired]
    /\ wpc' = [wpc EXCEPT ![w] = "loop"]
    /\ UNCHANGED <<thread, stopEvent, uipc, startLog, target>>
    /\ UNCHANGED notRun

\* _run, line 401 and lines 454-459: the poll of the transport raises; no
\* except clause encloses it, the finally block releases the transport and
\* the exception ends the thread.
WorkerRaises(w) ==
    /\ wpc[w] = "body"
    /\ wpc' = [wpc EXCEPT ![w] = "dead"]
    /\ trace' = [trace EXCEPT ![w] = Note(Note(@, "raised"), "Uninitialize")]
    /\ UNCHANGED <<thread, stopEvent, uipc, startLog, target, last_state, iter>>
    /\ UNCHANGED notRun

\* _run, lines 461-469: the final report, then the thread ends.
WorkerReports(w) ==
    /\ wpc[w] = "released"
    /\ wpc' = [wpc EXCEPT ![w] = "dead"]
    /\ trace' = [trace EXCEPT ![w] = Note(@, "final_report")]
    /\ UNCHANGED <<thread, stopEvent, uipc, startLog, target, last_state, iter>>
    /\ UNCHANGED notRun

RunnerNext ==
    \/ StartCheck
    \/ StartClear
    \/ StartSpawn
    \/ Stop
    \/ \E w \in Workers : WorkerOpenFails(w)
    \/ \E w \in Workers : WorkerOpens(w)
    \/ \E w \in Workers : WorkerTestsStop(w)
    \/ \E w \in Workers : WorkerIterates(w)
    \/ \E w \in Workers : WorkerRaises(w)
    \/ \E w \in Workers : WorkerReports(w)

InitRunner ==
    /\ impl = "tf"
    /\ env = "mixed"
    /\ prof = "links"
    /\ did = DID_LED
    /\ pc = "idle"
    /\ payload = <<>>
    /\ outcome = "none"
    /\ log = <<>>
    /\ waitEnd = "none"
    /\ RunnerIdle
    /\ target \in RunnerTargets
    /\ SeqIdle
    /\ DetIdle
    /\ HexIdle
    /\ RestIdle

\* the scheduler runs a worker thread that can take a step
WorkerStep(w) ==
    \/ WorkerOpenFails(w)
    \/ WorkerOpens(w)
    \/ WorkerTestsStop(w)
    \/ WorkerIterates(w)
    \/ WorkerRaises(w)
    \/ WorkerReports(w)

SpecRunner == InitRunner /\ [][RunnerNext]_vars

SpecRunnerFair == SpecRunner /\ \A w \in Workers : WF_vars(WorkerStep(w))

(***************************************************************************)
(* send_sequence, in its two implementations (bmw.py lines 154-183 and     *)
(* bmw_gui/sequences.py lines 56-78), with recv_drain and the caller that  *)
(* reports the result.  The entries are kept as the values make_msg parses *)
(* from the hexadecimal strings of the tables.  A response window is a     *)
(* loop of receive calls that ends when its time is over, whatever was     *)
(* received.                                                               *)
(***************************************************************************)
MaxRx == 2

WORKSHOP_SEQUENCE ==
    << <<\h6F1, <<\h29, \h02, \h10, \h03, 0, 0, 0, 0>>>>,
       <<\h6F1, <<\h29, \h05, \h31, \h01, \hA8, \h03, \h02, 0>>>> >>

OPERATION_SEQUENCE_GUI ==
    << <<\h6F1, <<\h29, \h02, \h10, \h03, 0, 0, 0, 0>>>>,
       <<\h6F1, <<\h29, \h03, \h22, \hF1, \h50, 0, 0, 0>>>>,
       <<\h6F1, <<\h29, \h04, \h2E, \hD8, \h0F, 0, 0, 0>>>> >>

OPERATION_SEQUENCE_BMW ==
    << <<\h1777, <<\h29, \h02, \h10, \h03>>>>,
       <<\h1777, <<\h29, \h03, \h22, \hF1, \h50>>>>,
       <<\h1777, <<\h29, \h04, \h2E, \hD8, \h0F>>>> >>

\* the sequences the callers pass (run_workshop, run_operation)
Sequences(i) ==
    IF i = "bmw" THEN {WORKSHOP_SEQUENCE, OPERATION_SEQUENCE_BMW}
                 ELSE {WORKSHOP_SEQUENCE, OPERATION_SEQUENCE_GUI}

\* make_msg: a standard (11-bit) frame of the entry's identifier and bytes
MakeMsg(e) == [arbitration_id |-> e[1], is_extended_id |-> FALSE, data |-> e[2]]

NextEntrySkips(i) == i + 2

\* for can_id, data_hex in seq: the loop advances by one entry
NextEntry(i) == i + 1

ShutdownCallsOnSuccessOnly(err) == IF err = "none" THEN 1 ELSE 0

\* finally: bus.shutdown(), on every way out of the try block
ShutdownCalls(err) == 1

ResultOnErrorTrue(i) == "True"

\* bmw.py: except Exception -> showerror, return False; sequences.py has no
\* except clause: the exception leaves the function
ResultOnError(i) == IF i = "bmw" THEN "False" ELSE "raised"

Ev(op, i) == [op |-> op, i |-> i]

\* open_bus() succeeds
SeqOpen ==
    /\ spos = "idle"
    /\ spos' = "send"
    /\ slog' = Append(slog, Ev("open", 0))
    /\ UNCHANGED <<simpl, seq, sidx, nrx, serror, sresult, callerOk>>
    /\ UNCHANGED notSeq

\* open_bus() raises: bmw.py shows the error and returns False (159-163);
\* sequences.py opens outside its try block (62), the exception leaves.
SeqOpenFails ==
    /\ spos = "idle"
    /\ spos' = "returned"
    /\ serror' = "open"
    /\ sresult' = ResultOnError(simpl)
    /\ slog' = IF simpl = "bmw" THEN Append(slog, Ev("dialog", 0)) ELSE slog
    /\ UNCHANGED <<simpl, seq, sidx, nrx, callerOk>>
    /\ UNCHANGED notSeq

\* make_msg and bus.send of the next entry
SeqSend ==
    /\ spos = "send"
    /\ sidx < Len(seq)
    /\ slog' = Append(slog, [op |-> "send", i |-> sidx, msg |-> MakeMsg(seq[sidx + 1])])
    /\ nrx' = 0
    /\ spos' = "drain"
    /\ UNCHANGED <<simpl, seq, sidx, serror, sresult, callerOk>>
    /\ UNCHANGED notSeq

\* bus.send raises
SeqSendRaises ==
    /\ spos = "send"
    /\ sidx < Len(seq)
    /\ slog' = Append(slog, Ev("send_raises", sidx))
    /\ serror' = "send"
    /\ spos' = "exit"
    /\ UNCHANGED <<simpl, seq, sidx, nrx, sresult, callerOk>>
    /\ UNCHANGED notSeq

\* recv_drain: bus.recv returns a frame, which is printed
SeqRecv ==
    /\ spos = "drain"
    /\ nrx < MaxRx
    /\ nrx' = nrx + 1
    /\ slog' = Append(slog, Ev("rx", sidx))
    /\ UNCHANGED <<simpl, seq, spos, sidx, serror, sresult, callerOk>>
    /\ UNCHANGED notSeq

\* recv_drain: bus.recv raises
SeqRecvRaises ==
    /\ spos = "drain"
    /\ slog' = Append(slog, Ev("recv_raises", sidx))
    /\ serror' = "recv"
    /\ spos' = "exit"
    /\ UNCHANGED <<simpl, seq, sidx, nrx, sresult, callerOk>>
    /\ UNCHANGED notSeq

\* recv_drain: time.time() >= end_t, the window is over
SeqWindowEnds ==
    /\ spos = "drain"
    /\ slog' = Append(slog, Ev("drained", sidx))
    /\ spos' = "sleep"
    /\ UNCHANGED <<simpl, seq, sidx, nrx, serror, sresult, callerOk>>
    /\ UNCHANGED notSeq

\* time.sleep(delay_s), then the for loop takes the next entry or ends
SeqSleep ==
    /\ spos = "sleep"
    /\ slog' = Append(slog, Ev("sleep", sidx))
    /\ sidx' = NextEntry(sidx)
    /\ spos' = IF NextEntry(sidx) < Len(seq) THEN "send" ELSE "exit"
    /\ UNCHANGED <<simpl, seq, nrx, serror, sresult, callerOk>>
    /\ UNCHANGED notSeq

\* the way out of the try block: bmw.py's except clause shows the error; the
\* finally block shuts the bus down; the function returns or raises.
SeqExit ==
    /\ spos = "exit"
    /\ LET shown == IF serror # "none" /\ simpl = "bmw"
                    THEN Append(slog, Ev("dialog", sidx)) ELSE slog
       IN  slog' = shown \o [k \in 1..ShutdownCalls(serror) |-> Ev("shutdown", sidx)]
    /\ sresult' = IF serror = "none" THEN "True" ELSE ResultOnError(simpl)
    /\ spos' = "returned"
    /\ UNCHANGED <<simpl, seq, sidx, nrx, serror, callerOk>>
    /\ UNCHANGED notSeq

\* the caller: run_workshop / run_operation of bmw.py (ok = send_sequence(..))
\* and _send_and_report of brake.py (which catches the exception, sets
\* ok = False and shows the error)
SeqCallerReports ==
    /\ spos = "returned"
    /\ callerOk' = (sresult = "True")
    /\ slog' = IF sresult = "raised" THEN Append(slog, Ev("dialog", sidx)) ELSE slog
    /\ spos' = "reported"
    /\ UNCHANGED <<simpl, seq, sidx, nrx, serror, sresult>>
    /\ UNCHANGED notSeq

SeqNext ==
    \/ SeqOpen
    \/ SeqOpenFails
    \/ SeqSend
    \/ SeqSendRaises
    \/ SeqRecv
    \/ SeqRecvRaises
    \/ SeqWindowEnds
    \/ SeqSleep
    \/ SeqExit
    \/ SeqCallerReports

\* no exchange in progress
UdsIdle ==
    /\ impl = "tf"
    /\ env = "mixed"
    /\ prof = "links"
    /\ did = DID_LED
    /\ pc = "idle"
    /\ payload = <<>>
    /\ outcome = "none"
    /\ log = <<>>
    /\ waitEnd = "none"

InitSeq ==
    /\ UdsIdle
    /\ RunnerIdle
    /\ target = "LED_ANY_ON"
    /\ simpl \in {"bmw", "gui"}
    /\ seq \in Sequences(simpl)
    /\ spos = "idle"
    /\ sidx = 0
    /\ nrx = 0
    /\ serror = "none"
    /\ sresult = "none"
    /\ slog = <<>>
    /\ callerOk = "none"
    /\ DetIdle
    /\ HexIdle
    /\ RestIdle

SpecSeq == InitSeq /\ [][SeqNext]_vars

(***************************************************************************)
(* The detectors of the Trigger Finder (trigger_finder.py lines 140-264)   *)
(* and the LED decoder of the table page (bmw.py lines 1180-1197).         *)
(* read_state is one step.  Values of AHLMove and LWRMove are kept in      *)
(* tenths (the raw integer the source divides by 10.0).                    *)
(***************************************************************************)
MaxReads == 2
MaxPoll == 2

Abs(x) == IF x < 0 THEN -x ELSE x

RECURSIVE BitAnd(_, _)
\* a & b on non-negative integers
BitAnd(a, b) ==
    IF a = 0 \/ b = 0 THEN 0
    ELSE (a % 2) * (b % 2) + 2 * BitAnd(a \div 2, b \div 2)

\* LEDAnyOn.read_state, lines 156-162, on the payload uds_read_by_id returned:
\* pairs (payload[i], payload[i+1]), i even, below min(len, 20)
LEDAnyOnState(p) ==
    \E i \in 0..(Min(Len(p), 20) - 1) :
        /\ i % 2 = 0
        /\ LET milliamp == At(p, i) * 10
               pct      == IF i + 1 < Len(p) THEN At(p, i + 1) ELSE 0
           IN  pct > 0 \/ milliamp >= 50

\* _decode_led, line 1191: the payload cut or zero-padded to 20 bytes
LedPadded(p) == IF Len(p) < 20 THEN Slice(p, 0, 20) \o Zeros(20 - Len(p)) ELSE Slice(p, 0, 20)

Max(a, b) == IF a >= b THEN a ELSE b

\* a decoder that does not limit the percentages to 100
DecodeLedNoClamp(p) ==
    [percent |-> [c \in 1..10 |-> Max(0, LedPadded(p)[c])],
     current |-> [c \in 1..10 |-> Max(0, LedPadded(p)[10 + c]) * 10]]

\* _decode_led, lines 1192-1196: ten percentages limited to 0..100, then ten
\* currents in units of 10 mA (the numbers the source renders with str)
DecodeLed(p) ==
    [percent |-> [c \in 1..10 |-> Max(0, Min(100, LedPadded(p)[c]))],
     current |-> [c \in 1..10 |-> Max(0, LedPadded(p)[10 + c]) * 10]]

\* AHLMove.delta = 1.0, LWRMove.delta = 0.5, in tenths
DeltaTenths(t) == IF t = "AHL_MOVE" THEN 10 ELSE 5

\* pairs (prev, cur) of the model's values that differ by exactly delta and
\* whose binary64 difference falls below it: 0.7 - 0.2 = 0.49999999999999994,
\* 1.4 - 0.4 = 0.9999999999999999
RoundedBelow(t) ==
    IF t = "AHL_MOVE" THEN {<<4, 14>>, <<14, 4>>} ELSE {<<2, 7>>, <<7, 2>>}

\* abs(val - self.prev) >= self.delta, lines 183 and 206, in binary64
DeltaReached(t, prev, cur) ==
    \/ Abs(cur - prev) > DeltaTenths(t)
    \/ Abs(cur - prev) = DeltaTenths(t) /\ <<prev, cur>> \notin RoundedBelow(t)

\* the payload is long enough for the detector (lines 177 and 200)
HasValue(t, p) == IF t = "AHL_MOVE" THEN Len(p) >= 2 ELSE Len(p) >= 1

\* ((payload[0] << 8) | payload[1]) and payload[0], lines 179 and 202
RawValue(t, p) == IF t = "AHL_MOVE" THEN At(p, 0) * 256 + At(p, 1) ELSE At(p, 0)

\* AHLMove / LWRMove.read_state on the payload uds_read_by_id returned
MoveState(t, prev, p) ==
    IF ~HasValue(t, p) THEN [state |-> "False", prev |-> prev]
    ELSE IF prev = NoValue THEN [state |-> "False", prev |-> RawValue(t, p)]
    ELSE [state |-> IF DeltaReached(t, prev, RawValue(t, p)) THEN "True" ELSE "False",
          prev  |-> RawValue(t, p)]

\* read_state of a UDS detector on a returned payload
UdsDetectorState(t, prev, p) ==
    IF t = "LED_ANY_ON"
    THEN [state |-> IF LEDAnyOnState(p) THEN "True" ELSE "False", prev |-> prev]
    ELSE MoveState(t, prev, p)

\* a frame as _pcan_read_once returns it
CanFrame(id, data) == [id |-> id, dlc |-> Len(data), data |-> data]

\* the frame is one CanBit looks at (line 257)
Relevant(cfg, f) == f.id = cfg.cid /\ cfg.byte < f.dlc

Masked(cfg, f) == BitAnd(At(f.data, cfg.byte), cfg.mask)

TargetValue(cfg) == BitAnd(cfg.value, cfg.mask)

RECURSIVE CanBitScan(_, _, _, _)
\* CanBit.read_state, lines 250-264, on the frames polled within its 0.2 s:
\* the result, the new _last and the observations made
CanBitScan(cfg, last, frames, seen) ==
    IF frames = <<>> THEN [state |-> "False", last |-> last, seen |-> seen]
    ELSE LET f == Head(frames)
         IN  IF ~Relevant(cfg, f) THEN CanBitScan(cfg, last, Tail(frames), seen)
             ELSE IF Masked(cfg, f) = TargetValue(cfg)
                  THEN LET rising == IF last # TargetValue(cfg) THEN "True" ELSE "False"
                       IN  [state |-> rising, last |-> Masked(cfg, f),
                            seen  |-> Append(seen, [masked |-> Masked(cfg, f), ret |-> rising])]
                  ELSE CanBitScan(cfg, Masked(cfg, f), Tail(frames),
                                  Append(seen, [masked |-> Masked(cfg, f), ret |-> "none"]))

\* the detectors DETECTORS builds without parameters, and CanBit
Detectors == {"LED_ANY_ON", "AHL_MOVE", "LWR_MOVE", "CAN_BIT"}

OneHot(n, pos, v) == [i \in 1..n |-> IF i = pos THEN v ELSE 0]

\* payloads of DID 0xD631: all channels off, or one byte set, full or short
LedPayloads ==
    {Zeros(n) : n \in {0, 20}}
    \cup {OneHot(20, pos, v) : pos \in {1, 2, 11, 12}, v \in {4, 5}}
    \cup {OneHot(1, 1, 5), OneHot(2, 2, 1), OneHot(11, 11, 5)}

\* payloads of DID 0xD663 (two bytes, tenths of a degree) and 0xD63B (one byte)
EcuPayloads(t) ==
    IF t = "LED_ANY_ON" THEN LedPayloads
    ELSE IF t = "AHL_MOVE" THEN {<<>>, <<5>>} \cup {<<0, r>> : r \in {0, 4, 10, 14, 30}}
    ELSE IF t = "LWR_MOVE" THEN {<<>>} \cup {<<r>> : r \in {0, 2, 5, 7, 12}}
    ELSE {<<>>}

\* CanBit objects: a bit that sets, a bit that clears, a two-bit field
CanConfigs ==
    {[cid |-> \h123, byte |-> 0, mask |-> m, value |-> v] :
        <<m, v>> \in {<<1, 1>>, <<1, 0>>, <<3, 2>>}}

\* frames on the bus while CanBit polls
CanFrames(cfg) ==
    {CanFrame(cfg.cid, <<b>>) : b \in {0, 1, 2}} \cup {CanFrame(\h456, <<1>>)}

FrameSeqs(cfg) ==
    UNION {[1..n -> CanFrames(cfg)] : n \in 0..MaxPoll}

\* reset(): self.prev = None (lines 173, 196), self._last = 0 (line 248)
DetReset ==
    /\ dhist # <<>>
    /\ dprev' = NoValue
    /\ dlast' = 0
    /\ dhist' = <<>>
    /\ UNCHANGED <<det, dcfg, ecu, dres>>
    /\ UNCHANGED notDet

\* the lamp module's value changes
EcuChanges ==
    /\ det # "CAN_BIT"
    /\ ecu' \in EcuPayloads(det) \ {ecu}
    /\ UNCHANGED <<det, dcfg, dprev, dlast, dhist, dres>>
    /\ UNCHANGED notDet

\* read_state of LEDAnyOn, AHLMove, LWRMove with the profile the runner
\* passes: the keyword call comes first; when it binds, uds_read_by_id
\* returns the module's payload or raises TimeoutError.
UdsDetectorRead ==
    /\ det # "CAN_BIT"
    /\ Len(dhist) < MaxReads
    /\ \E out \in (IF KeywordCall(PROFILES[prof]) = "TypeError"
                   THEN {"TypeError"} ELSE {"payload", "TimeoutError"}) :
         LET r == IF out = "payload" THEN UdsDetectorState(det, dprev, ecu)
                                     ELSE [state |-> out, prev |-> dprev]
         IN  /\ dprev' = r.prev
             /\ dhist' = Append(dhist, [payload |-> ecu, ret |-> r.state])
             /\ dres' = [tick |-> 1 - dres.tick, result |-> r.state]
    /\ UNCHANGED <<det, dcfg, dlast, ecu>>
    /\ UNCHANGED notDet

\* CanBit.read_state over the frames that arrive within its polling time
CanBitRead ==
    /\ det = "CAN_BIT"
    /\ Len(dhist) < MaxReads
    /\ \E frames \in FrameSeqs(dcfg) :
         LET r == CanBitScan(dcfg, dlast, frames, <<>>)
         IN  /\ dlast' = r.last
             /\ dhist' = Append(dhist, [seen |-> r.seen, ret |-> r.state])
             /\ dres' = [tick |-> 1 - dres.tick, result |-> r.state]
    /\ UNCHANGED <<det, dcfg, dprev, ecu>>
    /\ UNCHANGED notDet

DetNext ==
    \/ DetReset
    \/ EcuChanges
    \/ UdsDetectorRead
    \/ CanBitRead

InitDet ==
    /\ UdsIdle
    /\ RunnerIdle
    /\ target = "LED_ANY_ON"
    /\ SeqIdle
    /\ HexIdle
    /\ RestIdle
    /\ det \in Detectors
    /\ dcfg \in (IF det = "CAN_BIT" THEN CanConfigs
                 ELSE {[cid |-> \h123, byte |-> 0, mask |-> 1, value |-> 1]})
    /\ ecu \in EcuPayloads(det)
    /\ dprev = NoValue
    /\ dlast = 0
    /\ dhist = <<>>
    /\ dres = [tick |-> 0, result |-> "none"]

SpecDet == InitDet /\ [][DetNext]_vars

(***************************************************************************)
(* The byte-field helpers of the test page: normalize_hex_byte and         *)
(* tokens_from_boxes (bmw.py lines 187-220, the same code in               *)
(* bmw_gui/can_utils.py lines 66-94).  A text is a sequence of characters. *)
(* Python's unbounded integer total is a list of base-256 digits, lowest   *)
(* first.                                                                  *)
(***************************************************************************)
MaxText == 4

\* the characters of the model's texts
Chars == {"0", "1", "a", "F", "x", "G", "?", "+", " "}

HexDigits == {"0", "1", "A", "F"}

\* str.upper() on one character
UpperChar(c) == IF c = "a" THEN "A" ELSE IF c = "x" THEN "X" ELSE c

Upper(s) == [i \in 1..Len(s) |-> UpperChar(s[i])]

RECURSIVE StripLeft(_)
StripLeft(s) == IF s # <<>> /\ Head(s) = " " THEN StripLeft(Tail(s)) ELSE s

RECURSIVE StripRight(_)
StripRight(s) ==
    IF s # <<>> /\ s[Len(s)] = " " THEN StripRight(SubSeq(s, 1, Len(s) - 1)) ELSE s

\* str.strip()
Strip(s) == StripRight(StripLeft(s))

RECURSIVE Remove0X(_)
\* str.replace("0X", ""): every occurrence, found left to right, is removed
Remove0X(s) ==
    IF Len(s) < 2 THEN s
    ELSE IF s[1] = "0" /\ s[2] = "X" THEN Remove0X(SubSeq(s, 3, Len(s)))
    ELSE <<s[1]>> \o Remove0X(Tail(s))

\* int(s, 16) accepts the text: surrounding whitespace and one sign are
\* allowed around at least one hexadecimal digit
IntBase16Accepts(s) ==
    LET t == Strip(s)
        u == IF t # <<>> /\ Head(t) \in {"+", "-"} THEN Tail(t) ELSE t
    IN  u # <<>> /\ \A i \in 1..Len(u) : u[i] \in HexDigits

\* normalize_hex_byte
NormalizeHexByte(val) ==
    LET s == Remove0X(Upper(Strip(val)))
        p == IF Len(s) = 1 THEN <<"0">> \o s ELSE s
    IN  IF s \in {<<>>, <<"?">>, <<"?", "?">>} THEN [kind |-> "wildcard", s |-> <<>>]
        ELSE IF Len(p) # 2 THEN [kind |-> "ValueError", s |-> <<>>]
        ELSE IF ~IntBase16Accepts(p) THEN [kind |-> "ValueError", s |-> <<>>]
        ELSE [kind |-> "token", s |-> p]

Texts == UNION {[1..n -> Chars] : n \in 0..MaxText}

NormalizeCall ==
    /\ hres.kind = "none"
    /\ hres' = NormalizeHexByte(hval)
    /\ UNCHANGED <<hval, boxes, bres>>
    /\ UNCHANGED notHex

HexNext ==
    \/ NormalizeCall

InitHex ==
    /\ UdsIdle
    /\ RunnerIdle
    /\ target = "LED_ANY_ON"
    /\ SeqIdle
    /\ DetIdle
    /\ RestIdle
    /\ hval \in Texts
    /\ hres = [kind |-> "none", s |-> <<>>]
    /\ boxes = <<>>
    /\ bres = [kind |-> "none", tokens |-> <<>>, total |-> <<>>]

SpecHex == InitHex /\ [][HexNext]_vars

\* the byte fields of the test page
BoxCount == 8

\* what a field holds: nothing, one digit, a prefixed byte, no digit
FieldTexts == {<<>>, <<"a">>, <<"0", "x", "1", "F">>, <<"G">>}

Mul256Keeps(n) == n

\* total *= 256
Mul256(n) == <<0>> \o n

RECURSIVE TokensFromBoxes(_, _, _)
\* tokens_from_boxes: the loop over the fields from field i on, with the
\* tokens and the total so far
TokensFromBoxes(vals, tokens, total) ==
    IF vals = <<>> THEN [kind |-> "ok", tokens |-> tokens, total |-> total]
    ELSE LET t == NormalizeHexByte(Head(vals))
         IN  IF t.kind = "ValueError"
             THEN [kind |-> "ValueError", tokens |-> <<>>, total |-> <<>>]
             ELSE TokensFromBoxes(Tail(vals), Append(tokens, t),
                                  IF t.kind = "wildcard" THEN Mul256(total) ELSE total)

BoxesCall ==
    /\ bres.kind = "none"
    /\ bres' = TokensFromBoxes(boxes, <<>>, <<1>>)
    /\ UNCHANGED <<hval, hres, boxes>>
    /\ UNCHANGED notHex

BoxesNext ==
    \/ BoxesCall

InitBoxes ==
    /\ UdsIdle
    /\ RunnerIdle
    /\ target = "LED_ANY_ON"
    /\ SeqIdle
    /\ DetIdle
    /\ RestIdle
    /\ hval = <<>>
    /\ hres = [kind |-> "none", s |-> <<>>]
    /\ boxes \in [1..BoxCount -> FieldTexts]
    /\ bres = [kind |-> "none", tokens |-> <<>>, total |-> <<>>]

SpecBoxes == InitBoxes /\ [][BoxesNext]_vars

(***************************************************************************)
(* _decode_led of the table page (bmw.py lines 1180-1197) as a call.  The  *)
(* entries it returns are texts: str of a non-negative integer is the list *)
(* of its decimal digits.                                                  *)
(***************************************************************************)
Digit(d) == <<"0", "1", "2", "3", "4", "5", "6", "7", "8", "9">>[d + 1]

RECURSIVE Str(_)
\* str(n), n >= 0
Str(n) == IF n < 10 THEN <<Digit(n)>> ELSE Str(n \div 10) \o <<Digit(n % 10)>>

\* percent and current, lines 1195-1196
DecodeLedText(p) ==
    [kind    |-> "ok",
     percent |-> [c \in 1..10 |-> Str(DecodeLed(p).percent[c])],
     current |-> [c \in 1..10 |-> Str(DecodeLed(p).current[c])]]

Fill(n, v) == [i \in 1..n |-> v]

\* payloads of every length class, a byte at every position, values at and
\* around the limit of 100
LedLengths == {0, 5, 10, 19, 20, 21, 23}

LedValues == {1, 100, 101, 255}

LedTablePayloads ==
    {Fill(n, v) : n \in LedLengths, v \in LedValues}
    \cup UNION {{OneHot(n, pos, v) : pos \in 1..n, v \in LedValues} : n \in LedLengths}

DecodeLedCall ==
    /\ lres.kind = "none"
    /\ lres' = DecodeLedText(lpayload)
    /\ UNCHANGED lpayload
    /\ UNCHANGED notLed

LedNext ==
    \/ DecodeLedCall

InitLed ==
    /\ UdsIdle
    /\ RunnerIdle
    /\ target = "LED_ANY_ON"
    /\ SeqIdle
    /\ DetIdle
    /\ HexIdle
    /\ EngIdle
    /\ lpayload \in LedTablePayloads
    /\ lres = [kind |-> "none", percent |-> <<>>, current |-> <<>>]

SpecLed == InitLed /\ [][LedNext]_vars

(***************************************************************************)
(* The engine loop of TriggerFinderRunner._run (trigger_finder.py lines    *)
(* 389-453) with CanBit as its detector: the ring buffer, the analysis of  *)
(* an event and the two hit counters.  Time is time.monotonic() in units   *)
(* of 10 ms; a frame gets its timestamp when _pcan_read_once returns it.   *)
(***************************************************************************)
MaxIter == 3

\* RING_SECONDS, PRE_WIN, POST_WIN (lines 276-278), in units of 10 ms
RING_SECONDS == 500

PRE_WIN == 30

POST_WIN == 5

\* time.sleep(0.01), line 453
LoopSleep == 1

\* the polling time of CanBit.read_state, line 252
CanBitPoll == 20

\* the iterations of a stretch in which the transport delivers nothing: each
\* takes the polling time of the detector and the sleep
QuietIterations == 24

\* the frames the transport delivers in the model
EngineFrames ==
    {CanFrame(\h123, <<0>>), CanFrame(\h123, <<1>>), CanFrame(\h456, <<1>>),
     CanFrame(\h456, <<>>)}

\* what one poll of line 401 returns: no frame, or a frame
Polls == {<<>>} \cup {<<f>> : f \in EngineFrames}

\* the frames the transport holds for the reads of the detector
DetectorFrames ==
    {<<>>,
     <<CanFrame(\h123, <<1>>)>>,
     <<CanFrame(\h123, <<0>>)>>,
     <<CanFrame(\h123, <<0>>), CanFrame(\h123, <<1>>)>>,
     <<CanFrame(\h456, <<1>>)>>}

\* CanBit.read_state returns at the frame that matches (lines 258-262)
Matches(cfg, f) == Relevant(cfg, f) /\ Masked(cfg, f) = TargetValue(cfg)

RECURSIVE Consumed(_, _)
\* the frames CanBit.read_state takes from the transport: all up to the one
\* it returns at
Consumed(cfg, frames) ==
    IF frames = <<>> THEN <<>>
    ELSE IF Matches(cfg, Head(frames)) THEN <<Head(frames)>>
         ELSE <<Head(frames)>> \o Consumed(cfg, Tail(frames))

\* how long read_state takes: up to the matching frame, else the whole
\* polling time
DetectorTimes(cfg, frames) ==
    IF \E i \in 1..Len(frames) : Matches(cfg, frames[i]) THEN {0, 4} ELSE {CanBitPoll}

\* line 403: the ring entry of a frame read at ts
Stamped(f, ts) == [ts |-> ts, id |-> f.id, dlc |-> f.dlc, data |-> f.data]

\* a ring that never drops an entry
EvictKeepsAll(r, t_cut) == r

RECURSIVE Evict(_, _)
\* lines 405-406: while ring and ring[0][0] < t_cut: ring.popleft()
Evict(r, t_cut) ==
    IF r # <<>> /\ Head(r).ts < t_cut THEN Evict(Tail(r), t_cut) ELSE r

\* lines 402-406: the poll result appended, stale entries dropped
Polled(r, poll, ts) ==
    IF poll = <<>> THEN r
    ELSE Evict(Append(r, Stamped(poll[1], ts)), ts - RING_SECONDS)

NoSnapshot == [has |-> FALSE, data |-> <<>>]

RECURSIVE BeforeSnapshots(_, _, _)
\* lines 421-424: before[can_id] = data_prev for the entries older than
\* t_start, in ring order
BeforeSnapshots(r, t_start, before) ==
    IF r = <<>> THEN before
    ELSE BeforeSnapshots(Tail(r), t_start,
             IF Head(r).ts < t_start
             THEN [before EXCEPT ![Head(r).id] = [has |-> TRUE, data |-> Head(r).data]]
             ELSE before)

RECURSIVE InWindow(_, _, _)
\* line 426: in_win
InWindow(r, t_start, t_end) ==
    IF r = <<>> THEN <<>>
    ELSE (IF t_start <= Head(r).ts /\ Head(r).ts <= t_end THEN <<Head(r)>> ELSE <<>>)
         \o InWindow(Tail(r), t_start, t_end)

Bit(v, b) == (v \div (2 ^ b)) % 2

\* a table that counts every bit that differs
RisesOnAnyChange(prev, cur, idx, b) == Bit(At(prev, idx), b) # Bit(At(cur, idx), b)

\* line 439: the bit is 0 in prev and 1 in data_frame (line 435 skips the
\* bytes that are equal, in which no bit satisfies this)
Rises(prev, cur, idx, b) == Bit(At(prev, idx), b) = 0 /\ Bit(At(cur, idx), b) # 0

\* lines 430-440 for one frame: the keys of bit_hits it increments
FrameBitHits(before, f) ==
    IF ~before[f.id].has \/ Len(before[f.id].data) # Len(f.data) THEN {}
    ELSE {k \in BitKeys :
             /\ k[1] = f.id
             /\ k[2] < Len(f.data)
             /\ Rises(before[f.id].data, f.data, k[2], k[3])}

RECURSIVE CountBitHits(_, _, _)
\* lines 428-440 over in_win
CountBitHits(in_win, before, hits) ==
    IF in_win = <<>> THEN hits
    ELSE CountBitHits(Tail(in_win), before,
             [k \in BitKeys |->
                 IF k \in FrameBitHits(before, Head(in_win)) THEN hits[k] + 1 ELSE hits[k]])

\* a counter that counts every frame of the window
SeenPerFrame(in_win, hits) ==
    [i \in BusIds |-> hits[i] + Cardinality({j \in 1..Len(in_win) : in_win[j].id = i})]

\* lines 427-429: seen_ids
SeenIds(in_win) == {in_win[j].id : j \in 1..Len(in_win)}

\* lines 441-442: id_hits[can_id] += 1 for every seen id
CountIdHits(in_win, hits) ==
    [i \in BusIds |-> IF i \in SeenIds(in_win) THEN hits[i] + 1 ELSE hits[i]]

\* lines 401-453: one iteration: the poll, the read of the detector, the
\* analysis of an event on a rising state, last_state, the sleep
EngineIterates ==
    /\ evt.k < MaxIter
    /\ \E poll \in Polls, frames \in DetectorFrames :
         \E d \in DetectorTimes(dcfg, frames) :
           LET r1      == Polled(ring, poll, now)
               scan    == CanBitScan(dcfg, dlast, frames, <<>>)
               state   == scan.state = "True"
               t_event == now + d
               t_start == t_event - PRE_WIN
               t_end   == t_event + POST_WIN
               before  == BeforeSnapshots(r1, t_start, [i \in BusIds |-> NoSnapshot])
               in_win  == InWindow(r1, t_start, t_end)
               got     == Consumed(dcfg, frames)
           IN  /\ ring' = r1
               /\ dlast' = scan.last
               /\ taken' = taken \o [j \in 1..Len(got) |-> Stamped(got[j], now)]
               /\ IF Rising(state, elast)
                  THEN /\ bit_hits' = CountBitHits(in_win, before, bit_hits)
                       /\ id_hits' = CountIdHits(in_win, id_hits)
                       /\ evt' = [k |-> evt.k + 1, n |-> evt.n + 1, t |-> t_event,
                                  seen |-> SeenIds(in_win)]
                  ELSE /\ UNCHANGED <<bit_hits, id_hits>>
                       /\ evt' = [evt EXCEPT !.k = @ + 1]
               /\ elast' = state
               /\ now' = t_event + LoopSleep
    /\ UNCHANGED <<det, dcfg, dprev, ecu, dhist, dres>>
    /\ UNCHANGED <<udsVars, runVars, seqVars, hexVars, ledVars>>

\* QuietIterations iterations in a row in which no read returns a frame: the
\* detector polls its whole time and reports False, nothing else changes
EngineIdles ==
    /\ evt.k < MaxIter
    /\ now' = now + QuietIterations * (CanBitPoll + LoopSleep)
    /\ elast' = FALSE
    /\ evt' = [evt EXCEPT !.k = @ + 1]
    /\ UNCHANGED <<ring, id_hits, bit_hits, taken>>
    /\ UNCHANGED <<udsVars, runVars, seqVars, detVars, hexVars, ledVars>>

EngineNext ==
    \/ EngineIterates
    \/ EngineIdles

InitEngine ==
    /\ UdsIdle
    /\ RunnerIdle
    /\ target = "CAN_BIT"
    /\ SeqIdle
    /\ DetIdle
    /\ HexIdle
    /\ LedIdle
    /\ EngIdle

SpecEngine == InitEngine /\ [][EngineNext]_vars

(***************************************************************************)
(* Vocabulary of the properties.  Frames are classified by their bytes,    *)
(* not by what the engine made of them.                                    *)
(***************************************************************************)
Idx == 1..Len(log)

Last == log[Len(log)]

\* The bytes the engine is handed for a received log entry.
Seen(e) == View(impl, e.data)

FromResponder(e) == e.t = "rx" /\ e.id = Cfg.RX_ID /\ Len(e.data) >= 1 /\ e.data[1] = \hF1

Pci(e) == HighNibble(Seen(e)[2])

DidBytes == <<\h62, DidHigh(did), DidLow(did)>>

IsFlowControl(e) ==
    /\ e.t = "tx"
    /\ e.id = Cfg.TX_ID
    /\ e.data = <<Cfg.EA_REQ, 48, 0, 0, 0, 0, 0, 0>>

IsRequest(e) ==
    /\ e.t = "tx"
    /\ e.id = Cfg.TX_ID
    /\ e.data = <<Cfg.EA_REQ, 3, 34, DidHigh(did), DidLow(did), 0, 0, 0>>

FcIdx == {i \in Idx : IsFlowControl(log[i])}

RECURSIVE Carried(_)
\* The bytes carried by the accepted frames of a history, in arrival order.
Carried(l) ==
    IF l = <<>> THEN <<>>
    ELSE LET e == Head(l)
             part == CASE e.as = "ff" -> SubSeq(Seen(e), 7, Len(Seen(e)))
                       [] e.as = "cf" -> SubSeq(Seen(e), 3, Len(Seen(e)))
                       [] OTHER -> <<>>
         IN  part \o Carried(Tail(l))

RECURSIVE CarriedLen(_)
CarriedLen(l) ==
    IF l = <<>> THEN 0
    ELSE LET e == Head(l)
             n == Len(Seen(e))
         IN  (CASE e.as = "ff" -> n - 6 [] e.as = "cf" -> n - 2 [] OTHER -> 0)
             + CarriedLen(Tail(l))

MultiFrame == \E i \in Idx : log[i].as = "ff"

\* The exchange ended on a full-length positive Single Frame.
EndedOnSingleFrame ==
    /\ pc = "done" /\ waitEnd = "none"
    /\ Len(log) > 1
    /\ FromResponder(Last) /\ Last.ph = "first"
    /\ Len(Last.data) >= 5
    /\ Pci(Last) = 0
    /\ SubSeq(Seen(Last), 3, 5) = DidBytes

(***************************************************************************)
(* C1.  In an exchange answered by a First Frame the flow-control frame    *)
(* [EA_REQ, 0x30, 0, 0, 0, 0, 0, 0] is sent to tx_id exactly once, right   *)
(* after the First Frame was received and before any Consecutive Frame is  *)
(* consumed; an exchange answered by a Single Frame sends none; the only   *)
(* other frame the engine sends is the request.                            *)
(***************************************************************************)
C1_FlowControlOnce ==
    /\ Cardinality(FcIdx) <= 1
    /\ \A i \in Idx : log[i].t = "tx" => (i = 1 /\ IsRequest(log[i])) \/ i \in FcIdx
    /\ \A i \in FcIdx :
         /\ i > 1
         /\ FromResponder(log[i - 1]) /\ Pci(log[i - 1]) = 16
         /\ \A j \in Idx : log[j].as = "cf" => i < j
    /\ (\E j \in Idx : log[j].as = "cf") => FcIdx # {}
    /\ (pc = "wait_cf" \/ \E j \in Idx : log[j].as \in {"ff", "ff_neg"})
         => Cardinality(FcIdx) = 1
    /\ (\E j \in Idx : log[j].as \in {"sf", "sf_neg"}) => FcIdx = {}

C1_Witness ==
    /\ pc = "done" /\ outcome = "Payload"
    /\ Cardinality(FcIdx) = 1
    /\ \E j \in Idx : log[j].as = "cf"

(***************************************************************************)
(* C2.  The payload of a multi-frame exchange is bytes 6.. of the First    *)
(* Frame followed by bytes 2.. of each accepted Consecutive Frame, in      *)
(* arrival order (frames as handed to the engine: bmw.py sees every frame  *)
(* zero-padded to 8 bytes).                                                *)
(***************************************************************************)
C2_PayloadInArrivalOrder ==
    MultiFrame =>
        /\ payload = Carried(log)
        /\ pc = "done" => outcome = "Payload"

C2_Witness ==
    /\ pc = "done" /\ outcome = "Payload"
    /\ \E i, j \in Idx :
         /\ i < j
         /\ log[i].as = "cf" /\ log[j].as = "cf"
         /\ log[i].data # log[j].data

(***************************************************************************)
(* C3 as stated: a positive Single Frame with low nibble L returns exactly *)
(* L bytes, for every L.                                                   *)
(***************************************************************************)
C3_SfReturnsLBytes ==
    EndedOnSingleFrame =>
        /\ outcome = "Payload"
        /\ Len(payload) = LowNibble(Seen(Last)[2])

(***************************************************************************)
(* C3 amended.  A positive Single Frame with low nibble L returns the      *)
(* bytes at positions 5 .. min(5 + L, n) - 1 of the n bytes the engine is  *)
(* handed: L bytes when L <= n - 5, all n - 5 remaining bytes otherwise.   *)
(* [F1 03 62 D6 31 AA BB CC] for DID 0xD631 yields [AA BB CC].             *)
(***************************************************************************)
C3_SfReturnsAvailable ==
    EndedOnSingleFrame =>
        LET v == Seen(Last)
            n == Min(LowNibble(v[2]), Len(v) - 5)
        IN  /\ outcome = "Payload"
            /\ payload = [k \in 1..n |-> v[5 + k]]
            /\ (Last.data = <<241, 3, 98, 214, 49, 170, 187, 204>> /\ did = 54833)
                 => payload = <<170, 187, 204>>

C3_Witness ==
    /\ EndedOnSingleFrame
    /\ did = 54833
    /\ Last.data = <<241, 3, 98, 214, 49, 170, 187, 204>>
    /\ payload = <<170, 187, 204>>

(***************************************************************************)
(* C4 as stated: a matching Single Frame whose bytes 2..4, or First Frame  *)
(* whose bytes 3..5, differ from [0x62, did_high, did_low] ends the        *)
(* exchange with a negative-response error and no payload.                 *)
(***************************************************************************)
C4_NegativeResponseFails ==
    \A i \in Idx :
        LET e == log[i] IN
        ( /\ FromResponder(e) /\ e.ph = "first" /\ Len(e.data) = 8
          /\ \/ Pci(e) = 0 /\ SubSeq(e.data, 3, 5) # DidBytes
             \/ Pci(e) = 16 /\ SubSeq(e.data, 4, 6) # DidBytes )
        => /\ pc = "done"
           /\ outcome \in {"NegativeSF", "NegativeFF"}
           /\ payload = <<>>

(***************************************************************************)
(* C5 as stated: a matching initial response whose PCI nibble is neither   *)
(* 0x0 nor 0x1 ends the exchange with an unexpected-PCI error.             *)
(***************************************************************************)
C5_UnexpectedPciFails ==
    \A i \in Idx :
        LET e == log[i] IN
        ( /\ FromResponder(e) /\ e.ph = "first" /\ Len(e.data) = 8
          /\ Pci(e) \notin {0, 16} )
        => /\ pc = "done"
           /\ outcome = "UnexpectedPCI"

(***************************************************************************)
(* C6 as stated: a wait whose deadline passes, the initial one or the one  *)
(* for Consecutive Frames, makes the exchange fail with an error.          *)
(***************************************************************************)
C6_DeadlineRaises ==
    waitEnd # "none" => outcome \in {"TimeoutError", "NoValidResponse"}

(***************************************************************************)
(* C6 amended.  When the deadline of the initial wait passes the exchange  *)
(* fails (TimeoutError in trigger_finder.py, the RuntimeError 'Keine       *)
(* gueltige UDS Antwort.' in bmw.py) and returns no payload; when the      *)
(* deadline of the wait for Consecutive Frames passes, reassembly ends and *)
(* the exchange returns the payload collected so far, without an error.    *)
(***************************************************************************)
C6_DeadlineOutcome ==
    /\ waitEnd = "first" =>
         /\ pc = "done"
         /\ outcome = (IF impl = "bmw" THEN "NoValidResponse" ELSE "TimeoutError")
         /\ payload = <<>>
    /\ waitEnd = "cf" =>
         /\ pc = "done"
         /\ outcome = "Payload"
         /\ Len(payload) = CarriedLen(log)

C6_Witness ==
    /\ waitEnd = "cf"
    /\ outcome = "Payload"
    /\ \E j \in Idx : log[j].as = "cf"

(***************************************************************************)
(* C7 as stated: a frame received during the initial wait that has another *)
(* arbitration id than rx_id, or a first byte other than EA_RSP, does not  *)
(* end the exchange and contributes no bytes.                              *)
(***************************************************************************)
C7_NonMatchingSkipped ==
    ( /\ Len(log) > 1 /\ waitEnd = "none"
      /\ Last.t = "rx" /\ Last.ph = "first"
      /\ ~FromResponder(Last) )
    => /\ pc = "wait_first"
       /\ outcome = "none"
       /\ payload = <<>>

(***************************************************************************)
(* C8 as stated: once the accumulated payload is longer than 128 bytes the *)
(* reassembly has stopped, so the payload never grows beyond one frame     *)
(* over the ceiling.                                                       *)
(***************************************************************************)
C8_CeilingStops ==
    /\ Len(payload) > 128 => pc = "done"
    /\ Len(payload) <= 128 + 6

\* The length declared by a First Frame: the 12 bits after the PCI nibble.
DeclaredLen(e) == LowNibble(Seen(e)[2]) * 256 + Seen(e)[3]

(***************************************************************************)
(* C9 as stated: the payload of a multi-frame exchange is no longer than   *)
(* the length declared in the First Frame.                                 *)
(***************************************************************************)
C9_LengthAsDeclared ==
    (pc = "done" /\ outcome = "Payload") =>
        \A i \in Idx : log[i].as = "ff" => Len(payload) <= DeclaredLen(log[i])

(***************************************************************************)
(* C9 amended.  The length of the returned payload is the number of bytes  *)
(* the accepted frames carry: for a multi-frame response all bytes from    *)
(* position 6 of the First Frame and from position 2 of every accepted     *)
(* Consecutive Frame, whatever length the First Frame declares (padding    *)
(* and bytes beyond the declared length are returned too); for a Single    *)
(* Frame min(L, n - 5).                                                    *)
(***************************************************************************)
C9_LengthAsCarried ==
    (pc = "done" /\ outcome = "Payload") =>
        /\ MultiFrame => Len(payload) = CarriedLen(log)
        /\ EndedOnSingleFrame =>
             Len(payload) = Min(LowNibble(Seen(Last)[2]), Len(Seen(Last)) - 5)

C9_Witness ==
    /\ pc = "done" /\ outcome = "Payload"
    /\ \E i \in Idx : log[i].as = "ff" /\ Len(payload) > DeclaredLen(log[i])

(***************************************************************************)
(* C10.  A start() on a runner whose worker is alive is rejected: it       *)
(* returns False, creates no worker and leaves the stop event as it is;    *)
(* at all times at most one worker of the runner is alive and at most one  *)
(* holds the transport.                                                    *)
(***************************************************************************)
AtMostOneWorker ==
    /\ Cardinality({w \in Workers : IsAlive(w)}) <= 1
    /\ Cardinality({w \in Workers : HoldsTransport(w)}) <= 1
    /\ \A w \in Workers : IsAlive(w) => thread = w

StartOnAliveRejected ==
    ( /\ uipc = "idle"
      /\ thread # 0 /\ wpc[thread] \notin {"unborn", "dead"}
      /\ (startLog'.tick # startLog.tick \/ uipc' # "idle") )
    => /\ startLog'.result = "rejected"
       /\ uipc' = "idle"
       /\ stopEvent' = stopEvent
       /\ thread' = thread
       /\ wpc' = wpc

C10_StartRejectedWhileAlive == []AtMostOneWorker /\ [][StartOnAliveRejected]_vars

C10_Witness ==
    /\ startLog.result = "rejected"
    /\ stopEvent = TRUE
    /\ thread # 0 /\ HoldsTransport(thread)
    /\ \E w \in Workers : wpc[w] = "dead"

(***************************************************************************)
(* Vocabulary of the runner claims.                                        *)
(***************************************************************************)
\* position of an entry in a worker's history, 0 when absent
Pos(tr, tag) == IF tag \in Range(tr) THEN CHOOSE i \in 1..Len(tr) : tr[i] = tag ELSE 0

Did(w, tag) == tag \in Range(trace[w])

\* the worker was released and then reported, in this order
ReleasedThenReported(w) ==
    /\ Did(w, "Uninitialize") /\ Did(w, "final_report")
    /\ Pos(trace[w], "Uninitialize") < Pos(trace[w], "final_report")

(***************************************************************************)
(* C11.  Once stop() has set the event while a worker is in its loop, the  *)
(* worker finishes the iteration in progress, leaves the loop at its next  *)
(* test of the event, releases the transport, then emits the final report  *)
(* and ends, so that is_running() becomes false; unless a poll raised, in  *)
(* which case it ends as well.  A final report is never emitted before    *)
(* the release of the transport.                                           *)
(***************************************************************************)
ReportAfterRelease ==
    \A w \in Workers : Did(w, "final_report") => ReleasedThenReported(w)

StopPending(w) == stopEvent /\ HoldsTransport(w)

RunEnded(w) ==
    /\ wpc[w] = "dead"
    /\ ~(thread = w /\ IsRunning)
    /\ Did(w, "Uninitialize")
    /\ Did(w, "raised") \/ ReleasedThenReported(w)

C11_StopEndsRun ==
    /\ []ReportAfterRelease
    /\ \A w \in Workers : StopPending(w) ~> RunEnded(w)

C11_Witness ==
    \E w \in Workers :
        /\ thread = w /\ ~IsRunning /\ stopEvent
        /\ ~Did(w, "raised")
        /\ ReleasedThenReported(w)
        /\ iter.w = w

(***************************************************************************)
(* C12.  An exception raised in the loop by the transport or the detector  *)
(* is logged through the log callback and ends the loop with the           *)
(* transport released.                                                     *)
(***************************************************************************)
C12_LoopExceptionLoggedAndExits ==
    \A w \in Workers :
        /\ Did(w, "raised") =>
              /\ Did(w, "error_log")
              /\ Did(w, "Uninitialize")
              /\ wpc[w] = "dead"
        /\ (iter.w = w /\ iter.read \notin {"none", "true", "false", "TimeoutError"}) =>
              /\ Did(w, "error_log")
              /\ ~HoldsTransport(w)

(***************************************************************************)
(* C13.  A run that fails before its loop (driver missing, unknown         *)
(* profile, detector that cannot be built, Initialize failing) is reported *)
(* to the caller of start(): that start() did not return True.             *)
(***************************************************************************)
C13_OpenFailureSurfaced ==
    \A w \in Workers :
        (thread = w /\ Did(w, "init_error_log")) => startLog.result # "started"

(***************************************************************************)
(* C14.  An iteration whose detector read raised logs the error, takes the *)
(* state as false, fires no event, and leaves the worker in its loop with  *)
(* the transport held.                                                     *)
(***************************************************************************)
ReadRaised == iter.read \notin {"none", "true", "false"}

ReadErrorIsInactive ==
    (iter'.tick # iter.tick /\ ReadRaised') =>
        LET w == iter'.w
        IN  /\ iter'.state = FALSE
            /\ iter'.fired = FALSE
            /\ last_state'[w] = FALSE
            /\ "error_log" \in Range(trace'[w]) \/ "uds_timeout_log" \in Range(trace'[w])
            /\ "event_log" \in Range(trace'[w]) => "event_log" \in Range(trace[w])
            /\ wpc'[w] = "loop"

C14_ReadErrorIsInactive == [][ReadErrorIsInactive]_vars

C14_Witness ==
    /\ ReadRaised
    /\ wpc[iter.w] = "body"
    /\ Did(iter.w, "error_log")
    /\ ~Did(iter.w, "event_log")

(***************************************************************************)
(* Vocabulary of the send_sequence claims.                                 *)
(***************************************************************************)
IsSend(e) == e.op = "send"

SendEvents == SelectSeq(slog, IsSend)

Ops(op) == {k \in 1..Len(slog) : slog[k].op = op}

SeqOver == spos \in {"returned", "reported"}

(***************************************************************************)
(* C15.  send_sequence sends the entries in list order, each once; every   *)
(* send is followed by its response window (received frames only, then the *)
(* end of the window) and then by the inter-frame sleep, also when the     *)
(* window received nothing; the next send comes directly after the sleep;  *)
(* a call that returns True has sent and paced every entry.                *)
(***************************************************************************)
C15_SentInOrderAndPaced ==
    /\ \A k \in 1..Len(SendEvents) :
          /\ SendEvents[k].i = k - 1
          /\ SendEvents[k].msg = MakeMsg(seq[k])
    /\ \A k \in 1..Len(slog) :
          /\ slog[k].op = "send"    => slog[k - 1].op \in {"open", "sleep"}
          /\ slog[k].op = "rx"      => slog[k - 1].op \in {"send", "rx"}
          /\ slog[k].op = "drained" => slog[k - 1].op \in {"send", "rx"}
          /\ slog[k].op = "sleep"   => slog[k - 1].op = "drained"
    /\ sresult = "True" =>
          /\ Len(SendEvents) = Len(seq)
          /\ Cardinality(Ops("drained")) = Len(seq)
          /\ Cardinality(Ops("sleep")) = Len(seq)

C15_Witness ==
    /\ sresult = "True"
    /\ \E k \in 1..Len(slog) :
          /\ k + 3 <= Len(slog)
          /\ slog[k].op = "send" /\ slog[k + 1].op = "drained"
          /\ slog[k + 2].op = "sleep" /\ slog[k + 3].op = "send"
    /\ Cardinality(Ops("rx")) > 0

(***************************************************************************)
(* C16.  Once the bus is open, send_sequence shuts it down exactly once on *)
(* every way out (all sent, a send that raises, a receive that raises),    *)
(* and never shuts down a bus it did not open; after a send that raised    *)
(* nothing more is sent or received.                                       *)
(***************************************************************************)
C16_ReleasedOnceOnEveryExit ==
    /\ Cardinality(Ops("shutdown")) <= 1
    /\ SeqOver => Cardinality(Ops("shutdown")) = Cardinality(Ops("open"))
    /\ \A k \in Ops("shutdown") : \A j \in k + 1..Len(slog) : slog[j].op = "dialog"
    /\ \A k \in Ops("send_raises") \cup Ops("recv_raises") :
          \A j \in k + 1..Len(slog) : slog[j].op \in {"dialog", "shutdown"}

C16_Witness ==
    /\ SeqOver
    /\ serror = "send"
    /\ Len(SendEvents) = 1 /\ Len(seq) > 1
    /\ Cardinality(Ops("shutdown")) = 1

(***************************************************************************)
(* C17 as stated.  When a send raises, send_sequence returns False.        *)
(***************************************************************************)
C17_ReturnsFalseWhenSendRaises ==
    (SeqOver /\ serror = "send") => sresult = "False"

(***************************************************************************)
(* C17.  send_sequence returns True only when every entry was sent.  When  *)
(* a send raises, the bmw.py function shows the error and returns False;   *)
(* the sequences.py function lets the exception pass to its caller, which  *)
(* shows the error; in both the caller ends with ok = False and the error  *)
(* shown once.                                                             *)
(***************************************************************************)
C17_TrueOnlyWhenAllSent ==
    /\ sresult = "True" => (Len(SendEvents) = Len(seq) /\ serror = "none")
    /\ (SeqOver /\ serror = "send") =>
          /\ simpl = "bmw" => (sresult = "False" /\ Cardinality(Ops("dialog")) = 1)
          /\ simpl = "gui" => sresult = "raised"
          /\ spos = "reported" => (callerOk = FALSE /\ Cardinality(Ops("dialog")) = 1)
    /\ spos = "reported" => (callerOk = TRUE <=> sresult = "True")

C17_Witness ==
    /\ simpl = "gui"
    /\ spos = "reported"
    /\ serror = "send"
    /\ sresult = "raised"
    /\ callerOk = FALSE
    /\ Len(SendEvents) = 2

(***************************************************************************)
(* Vocabulary of the detector claims.                                      *)
(***************************************************************************)
\* the reads since reset() at which the module answered a usable value
Valued == {k \in 1..Len(dhist) : HasValue(det, dhist[k].payload)}

\* the observation before read k, 0 when there is none
Before(k) ==
    IF \E j \in Valued : j < k
    THEN CHOOSE j \in Valued : j < k /\ \A i \in Valued : i < k => i <= j
    ELSE 0

\* a channel is on in the table's decode: percentage above 0 or current of
\* at least 50 mA
DecodedAnyOn(p) ==
    \E c \in 1..10 : DecodeLed(p).percent[c] > 0 \/ DecodeLed(p).current[c] >= 50

RECURSIVE Flat(_)
Flat(h) == IF h = <<>> THEN <<>> ELSE Head(h).seen \o Flat(Tail(h))

\* CanBit: the frames of the configured id observed since reset(), in order
Obs == Flat(dhist)

(***************************************************************************)
(* C18.  AHLMove / LWRMove: the first observation after reset() does not   *)
(* return true; a later observation returns true exactly when the value    *)
(* differs from the previous observation's by at least delta.              *)
(***************************************************************************)
C18_DeltaDetected ==
    det \in {"AHL_MOVE", "LWR_MOVE"} =>
        \A k \in Valued :
            IF Before(k) = 0
            THEN dhist[k].ret # "True"
            ELSE dhist[k].ret = "True" <=>
                    Abs(RawValue(det, dhist[k].payload)
                        - RawValue(det, dhist[Before(k)].payload)) >= DeltaTenths(det)

(***************************************************************************)
(* C19.  LEDAnyOn returns true exactly when the table's decode of the same *)
(* payload shows a channel on, for every payload of at most 20 bytes.      *)
(***************************************************************************)
C19_DetectorAgreesWithDecoder ==
    det = "LED_ANY_ON" =>
        \A k \in 1..Len(dhist) :
            Len(dhist[k].payload) <= 20 =>
                /\ LEDAnyOnState(dhist[k].payload) <=> DecodedAnyOn(dhist[k].payload)
                /\ dhist[k].ret = "True" <=> DecodedAnyOn(dhist[k].payload)

(***************************************************************************)
(* C20.  CanBit returns true exactly on a matching frame of the configured *)
(* id that is the first such frame observed after reset() or follows an    *)
(* observed frame that did not match, for every mask and value.            *)
(***************************************************************************)
C20_RisingEdgeOnly ==
    det = "CAN_BIT" =>
        /\ \A k \in 1..Len(Obs) :
              Obs[k].ret = "True" <=>
                  /\ Obs[k].masked = TargetValue(dcfg)
                  /\ k = 1 \/ Obs[k - 1].masked # TargetValue(dcfg)
        /\ \A k \in 1..Len(dhist) :
              dhist[k].ret = "True" =>
                  /\ dhist[k].seen # <<>>
                  /\ dhist[k].seen[Len(dhist[k].seen)].ret = "True"

(***************************************************************************)
(* C22.  tokens_from_boxes on 8 valid fields returns the 8 tokens in field *)
(* order (an empty field the wildcard, "a" the token 0A, "0x1F" the token  *)
(* 1F) and total = 256^k for k wildcard fields.                            *)
(***************************************************************************)
\* 256^k as a list of base-256 digits, lowest first
Pow256(k) == [i \in 1..(k + 1) |-> IF i = k + 1 THEN 1 ELSE 0]

ValidFields == \A i \in 1..Len(boxes) : boxes[i] # <<"G">>

EmptyFields == {i \in 1..Len(boxes) : boxes[i] = <<>>}

C22_TokensAndVariants ==
    (bres.kind # "none" /\ ValidFields) =>
        /\ bres.kind = "ok"
        /\ Len(bres.tokens) = 8
        /\ \A i \in 1..8 :
              bres.tokens[i] =
                  CASE boxes[i] = <<>> -> [kind |-> "wildcard", s |-> <<>>]
                    [] boxes[i] = <<"a">> -> [kind |-> "token", s |-> <<"0", "A">>]
                    [] OTHER -> [kind |-> "token", s |-> <<"1", "F">>]
        /\ bres.total = Pow256(Cardinality(EmptyFields))

C22_Witness ==
    /\ bres.kind = "ok"
    /\ Cardinality(EmptyFields) = 3
    /\ boxes[1] = <<"a">> /\ boxes[2] = <<>> /\ boxes[8] = <<"0", "x", "1", "F">>

(***************************************************************************)
(* C23.  _decode_led returns, for every payload, ten percentages and ten   *)
(* currents: percentage i is byte i limited to 0..100, current i is byte   *)
(* 10+i times 10, a byte the payload does not have counts as 0, bytes from *)
(* the 21st on are ignored.                                                *)
(***************************************************************************)
\* byte i (from 0) of the payload, 0 when the payload is shorter
ByteOrZero(p, i) == IF i < Len(p) THEN At(p, i) ELSE 0

C23_LedDecodeShape ==
    lres.kind = "ok" =>
        /\ Len(lres.percent) = 10
        /\ Len(lres.current) = 10
        /\ \A i \in 0..9 :
              /\ lres.percent[i + 1] =
                     Str(IF ByteOrZero(lpayload, i) > 100 THEN 100 ELSE ByteOrZero(lpayload, i))
              /\ lres.current[i + 1] = Str(ByteOrZero(lpayload, 10 + i) * 10)

C23_Witness ==
    /\ lres.kind = "ok"
    /\ Len(lpayload) = 5
    /\ lpayload[3] = 255
    /\ lres.percent[3] = <<"1", "0", "0">>
    /\ lres.current[10] = <<"0">>

(***************************************************************************)
(* Vocabulary of the engine claims.                                        *)
(***************************************************************************)
RingIdx == 1..Len(ring)

\* the step is an iteration of the loop that analysed an event
EventStep == evt'.n # evt.n

\* entry j of the ring after the step lies in the window of the event
InEventWindow(j) ==
    /\ evt'.t - PRE_WIN <= ring'[j].ts
    /\ ring'[j].ts <= evt'.t + POST_WIN

(***************************************************************************)
(* C24.  Every frame received from the transport during a run is in the    *)
(* ring buffer while it is within the window, the frames the detector's    *)
(* own reads receive included.                                             *)
(***************************************************************************)
C24_EveryFrameBuffered ==
    \A j \in 1..Len(taken) :
        taken[j].ts >= now - RING_SECONDS => \E i \in RingIdx : ring[i] = taken[j]

(***************************************************************************)
(* C25.  Every frame of the ring with a timestamp in [t - 0.300 s,         *)
(* t + 0.050 s] of the last event at t took part in the analysis of that   *)
(* event: its id is among the ids seen for the event, also when it arrived *)
(* after t.                                                                *)
(***************************************************************************)
C25_PostWindowFramesAnalysed ==
    evt.n > 0 =>
        \A i \in RingIdx :
            evt.t - PRE_WIN <= ring[i].ts /\ ring[i].ts <= evt.t + POST_WIN
                => ring[i].id \in evt.seen

(***************************************************************************)
(* C26.  An iteration of the engine loop analyses an event exactly when    *)
(* the detector state it read is true and the state of the previous        *)
(* iteration was false (false before the first); while the readings stay   *)
(* true no further event is analysed.                                      *)
(***************************************************************************)
EventOnRisingState ==
    evt'.k # evt.k =>
        /\ EventStep <=> (elast' /\ ~elast)
        /\ evt'.n = IF EventStep THEN evt.n + 1 ELSE evt.n
        /\ evt.k = 0 => ~elast

C26_EventOnRisingState == [][EventOnRisingState]_vars

\* two true readings in a row: the event of the first is the only one
C26_Witness ==
    /\ evt.k = 2
    /\ evt.n = 1
    /\ elast
    /\ now > evt.t + LoopSleep

(***************************************************************************)
(* C27.  An event adds exactly 1 to the id-hit counter of every id with at *)
(* least one buffered frame in the event window, however many frames of   *)
(* that id the window holds, and leaves the counters of all other ids      *)
(* alone; nothing but an event changes a counter.                          *)
(***************************************************************************)
IdHitOncePerSeenId ==
    IF EventStep
    THEN \A i \in BusIds :
            id_hits'[i] = id_hits[i] +
                (IF \E j \in 1..Len(ring') : ring'[j].id = i /\ InEventWindow(j)
                 THEN 1 ELSE 0)
    ELSE id_hits' = id_hits

C27_IdHitOncePerSeenId == [][IdHitOncePerSeenId]_vars

\* one event, two frames of an id in its window, the counter of the id at 1
\* and the counter of the other id at 0
C27_Witness ==
    /\ evt.n = 1
    /\ \E a, b \in RingIdx :
          /\ a < b
          /\ ring[a].id = ring[b].id
          /\ evt.t - PRE_WIN <= ring[a].ts
          /\ ring[b].ts <= evt.t
          /\ id_hits[ring[a].id] = 1
          /\ \E i \in BusIds : id_hits[i] = 0

(***************************************************************************)
(* C28.  At an event the before snapshot of an id is the data of its last  *)
(* buffered frame older than t - 0.300 s.  Every frame of the id in the    *)
(* event window whose length equals that of the snapshot adds 1 to exactly *)
(* the entries (id, byte, bit) whose bit is 0 in the snapshot and 1 in the *)
(* frame; nothing else changes the bit-hit table.                          *)
(***************************************************************************)
\* the entries of id i older than the pre-window of the event
OlderThanWindow(i) ==
    {j \in 1..Len(ring') : ring'[j].id = i /\ ring'[j].ts < evt'.t - PRE_WIN}

\* the last of them
SnapshotIdx(i) == CHOOSE j \in OlderThanWindow(i) : \A m \in OlderThanWindow(i) : m <= j

\* entry j of the window sets bit b of byte idx against the snapshot of its id
SetsBit(j, idx, b) ==
    /\ OlderThanWindow(ring'[j].id) # {}
    /\ LET snap == ring'[SnapshotIdx(ring'[j].id)].data
           data == ring'[j].data
       IN  /\ Len(snap) = Len(data)
           /\ idx < Len(data)
           /\ (snap[idx + 1] \div (2 ^ b)) % 2 = 0
           /\ (data[idx + 1] \div (2 ^ b)) % 2 = 1

BitHitsFromSnapshot ==
    IF EventStep
    THEN \A key \in BitKeys :
            bit_hits'[key] = bit_hits[key] +
                Cardinality({j \in 1..Len(ring') :
                                /\ ring'[j].id = key[1]
                                /\ InEventWindow(j)
                                /\ SetsBit(j, key[2], key[3])})
    ELSE bit_hits' = bit_hits

C28_BitHitsFromSnapshot == [][BitHitsFromSnapshot]_vars

\* one event with a snapshot 0x00 and one frame 0x01 of the id in its window:
\* entry (id, 0, 0) is at 1 and every other entry at 0
C28_Witness ==
    /\ evt.n = 1
    /\ \E a, b \in RingIdx :
          /\ ring[a].id = ring[b].id
          /\ ring[a].data = <<0>>
          /\ ring[a].ts < evt.t - PRE_WIN
          /\ ring[b].data = <<1>>
          /\ evt.t - PRE_WIN <= ring[b].ts
          /\ ring[b].ts <= evt.t
          /\ \A key \in BitKeys :
                bit_hits[key] = IF key = <<ring[a].id, 0, 0>> THEN 1 ELSE 0

(***************************************************************************)
(* C29.  After every step of the loop the ring holds its entries in the    *)
(* order they were appended, none older than the newest minus the 5 s      *)
(* window; a step takes entries away only at the front and only entries    *)
(* older than that window, and adds at most one entry, at the back.        *)
(***************************************************************************)
RingKeepsWindow ==
    /\ \A a, b \in 1..Len(ring') : a < b => ring'[a].ts <= ring'[b].ts
    /\ \A j \in 1..Len(ring') : ring'[j].ts >= ring'[Len(ring')].ts - RING_SECONDS
    /\ \E m \in 0..Len(ring), add \in {0, 1} :
          /\ Len(ring') = Len(ring) - m + add
          /\ \A j \in 1..(Len(ring) - m) : ring'[j] = ring[j + m]
          /\ add = 1 => ring'[Len(ring')].ts = now
          /\ m > 0 =>
                /\ add = 1
                /\ \A j \in 1..m : ring[j].ts < now - RING_SECONDS

C29_RingKeepsWindow == [][RingKeepsWindow]_vars

\* a frame that took part in the last event has left the ring, which holds a
\* newer one
C29_Witness ==
    /\ ring # <<>>
    /\ \E i \in evt.seen : \A j \in RingIdx : ring[j].id # i

(***************************************************************************)
(* C30.  A flow-control frame is sent only after a First Frame that was    *)
(* validated as a positive response; an exchange that ends with a          *)
(* negative-response error has sent its request frame and nothing else.    *)
(***************************************************************************)
C30_FlowControlAfterValidation ==
    /\ \A i \in FcIdx : \E j \in 1..(i - 1) : log[j].as = "ff"
    /\ outcome \in {"NegativeSF", "NegativeFF"} =>
          Cardinality({i \in Idx : log[i].t = "tx"}) = 1

(***************************************************************************)
(* C21.  normalize_hex_byte: the empty text, "?" and "??" (after trimming, *)
(* upper-casing and removal of a 0x prefix) give the wildcard; every other *)
(* result is either an error or a token of exactly two characters, both    *)
(* hexadecimal digits; an input that is not one or two hexadecimal digits  *)
(* behind an optional prefix fails.                                        *)
(***************************************************************************)
\* the trimmed, upper-cased text without a leading 0X
Bare(val) ==
    LET t == Upper(Strip(val))
    IN  IF Len(t) >= 2 /\ t[1] = "0" /\ t[2] = "X" THEN SubSeq(t, 3, Len(t)) ELSE t

IsHexText(s) == \A i \in 1..Len(s) : s[i] \in HexDigits

C21_TokenIsTwoHexDigits ==
    hres.kind # "none" =>
        /\ hres.kind = "wildcard" <=> Bare(hval) \in {<<>>, <<"?">>, <<"?", "?">>}
        /\ hres.kind = "token" => (Len(hres.s) = 2 /\ IsHexText(hres.s))
        /\ hres.kind = "token" <=> (Len(Bare(hval)) \in {1, 2} /\ IsHexText(Bare(hval)))
        /\ (hres.kind = "token" /\ Len(Bare(hval)) = 1) => hres.s = <<"0">> \o Bare(hval)
        /\ (hres.kind = "token" /\ Len(Bare(hval)) = 2) => hres.s = Bare(hval)

====
